---- MODULE Spec2Model ----
(***************************************************************************)
(* Model of the Capitol Trades MCP server: the row parser and paginator of *)
(* src/src/politician-trades-scraper.ts, the identifier resolver with its *)
(* in-memory cache, and the tool-call handler of src/src/index.ts.        *)
(*                                                                         *)
(* Text is modelled as a sequence of one-character strings, so that trim,  *)
(* toLowerCase and split are computed and not assumed.                     *)
(***************************************************************************)
EXTENDS Integers, Sequences, FiniteSets, TLC

\* ---------------------------------------------------------------- bounds
\* rows of one page in the parser specification
MaxRows == 2
\* rows of one page offered to the paginator
MaxPageRows == 2
\* largest limit a direct caller passes to scrapePoliticianTrades
MaxLimit == 3
\* the source serves no non-empty page after this page number
MaxPages == 3

\* ------------------------------------------------------- text helpers
EmptyText == <<>>

IsSpace(c) == c = " "

RECURSIVE TrimStart(_)
TrimStart(s) ==
  IF s = <<>> THEN <<>>
  ELSE IF IsSpace(Head(s)) THEN TrimStart(Tail(s)) ELSE s

RECURSIVE TrimEnd(_)
TrimEnd(s) ==
  IF s = <<>> THEN <<>>
  ELSE IF IsSpace(s[Len(s)]) THEN TrimEnd(SubSeq(s, 1, Len(s) - 1)) ELSE s

\* String.prototype.trim
Trim(s) == TrimEnd(TrimStart(s))

\* all sequences over S of length at most n
RECURSIVE SeqsUpTo(_, _)
SeqsUpTo(S, n) ==
  IF n = 0 THEN {<<>>}
  ELSE LET shorter == SeqsUpTo(S, n - 1)
       IN  shorter \cup {Append(s, x) : s \in {t \in shorter : Len(t) = n - 1}, x \in S}

\* ------------------------------------------------- single-page row parser
\* A table row as the HTML gives it: the raw text of the three cells the
\* blank-row filter reads, and whether extracting its fields raises.
CellTexts == {<<>>, <<" ">>, <<" ", "x">>}

Rows == [throws : BOOLEAN, politicianName : CellTexts, issuerName : CellTexts, txType : CellTexts]

UnknownIssuer == <<"Unknown">>

\* `$row.find(...).text().trim() || ""`
CellText(raw) == Trim(raw)

\* `!politicianName && !issuerName && !txType`
IsBlankRow_any(politicianName, issuerName, txType) ==
  politicianName = EmptyText \/ issuerName = EmptyText \/ txType = EmptyText

IsBlankRow(politicianName, issuerName, txType) ==
  politicianName = EmptyText /\ issuerName = EmptyText /\ txType = EmptyText

\* the trade built from row number i (0-based, as rows.each passes it)
MakeTrade(row, i) ==
  [index      |-> i + 1,
   politician |-> CellText(row.politicianName),
   issuer     |-> IF CellText(row.issuerName) = EmptyText THEN UnknownIssuer
                  ELSE CellText(row.issuerName),
   txType     |-> CellText(row.txType)]

\* What the callback of rows.each does with one row: "push" a trade, "skip"
\* a blank row, or "caught": the row's own try/catch swallowed an error.
RowOutcome_rethrow(row) ==
  IF row.throws THEN "abort"
  ELSE IF IsBlankRow(CellText(row.politicianName), CellText(row.issuerName), CellText(row.txType))
       THEN "skip" ELSE "push"

RowOutcome(row) ==
  IF row.throws THEN "caught"
  ELSE IF IsBlankRow(CellText(row.politicianName), CellText(row.issuerName), CellText(row.txType))
       THEN "skip" ELSE "push"

\* rows.each over rows[i+1..], with the trades pushed so far
RECURSIVE EachRow(_, _, _)
EachRow(rows, i, trades) ==
  IF i >= Len(rows) THEN [ok |-> TRUE, trades |-> trades]
  ELSE LET o == RowOutcome(rows[i + 1])
       IN  IF o = "abort" THEN [ok |-> FALSE, trades |-> <<>>]
           ELSE IF o = "push" THEN EachRow(rows, i + 1, Append(trades, MakeTrade(rows[i + 1], i)))
           ELSE EachRow(rows, i + 1, trades)

\* the body of scrapePoliticianTradesSinglePage after a successful GET
ParsePage(rows) == EachRow(rows, 0, <<>>)

\* ------------------------------------------------------------ messages
\* An Error's message is the chain of its wrappers: each part is a literal
\* text, with the value interpolated after it (<<>> when there is none).
Lit(t) == [text |-> t, arg |-> <<>>]

WithArg(t, a) == [text |-> t, arg |-> a]

\* new Error(`${prefix}${errorMessage}`)
Wrap(prefix, msg) == <<Lit(prefix)>> \o msg

\* what axios rejects with: network error, timeout, status outside 200..299
Causes == {"Network Error", "timeout of 60000ms exceeded", "Request failed with status code 404"}

\* ------------------------------------------------------------ state
VARIABLES
  \* parser specification: the rows of the page and the value returned
  prows, pout,
  \* scrapePoliticianTrades: position, arguments, locals
  spc, url, limit, page, allTrades,
  \* page requests issued so far, and what each request came back with
  fetched, pageLog,
  \* number of 500 ms pauses taken, and the value returned or error thrown
  pauses, sres,
  \* the identifier cache (key -> id and timestamp) and the clock Date.now()
  idCache, now,
  \* per in-flight resolution: position, arguments, value returned or thrown
  rpc, rreq, rres,
  \* history: per key, the time and identifier of the last resolution that
  \* succeeded by a fetch
  lastFetched,
  \* extraction specification: kind, query and search page, and the outcome
  xin, xout,
  \* analysis specifications: the collected trades and the limit, and the
  \* report computed from them
  ain, aout,
  \* tool-call handler: position, request, query parameters built so far,
  \* response, and the number of HTTP requests issued for the call
  hpc, hreq, hparams, hresp, hnet

parseVars == <<prows, pout, xin, xout, ain, aout>>
toolVars == <<hpc, hreq, hparams, hresp, hnet>>
scrapeVars == <<spc, url, limit, page, allTrades, fetched, pageLog, pauses, sres>>
resolveVars == <<idCache, now, rpc, rreq, rres, lastFetched>>
vars == <<parseVars, scrapeVars, resolveVars, toolVars>>

\* -------------------------------------------------- parser specification
NoOutput == [called |-> FALSE, ok |-> FALSE, trades |-> <<>>, error |-> <<>>]

\* scrapePoliticianTradesSinglePage, given what the GET came back with
FetchPage(resp) ==
  IF ~resp.ok
  THEN [ok |-> FALSE, trades |-> <<>>,
        error |-> Wrap("Failed to scrape politician trades page: ", <<Lit(resp.cause)>>)]
  ELSE LET r == ParsePage(resp.rows)
       IN  IF r.ok THEN [ok |-> TRUE, trades |-> r.trades, error |-> <<>>]
           ELSE [ok |-> FALSE, trades |-> <<>>,
                 error |-> Wrap("Failed to scrape politician trades page: ", <<Lit("row error")>>)]

ParseCall ==
  /\ ~pout.called
  /\ LET r == FetchPage([ok |-> TRUE, rows |-> prows])
     IN  pout' = [called |-> TRUE, ok |-> r.ok, trades |-> r.trades, error |-> r.error]
  /\ UNCHANGED <<prows, xin, xout, ain, aout, scrapeVars, resolveVars, toolVars>>

\* ------------------------------------------------------------ paginator
\* A trade-listing URL: its path and its query parameters in order.
Param(n, v) == [name |-> n, value |-> v]

Urls ==
  {[path |-> "/trades", params |-> <<Param("txDate", <<"90d">>)>>],
   [path |-> "/trades", params |-> <<Param("page", <<"7">>), Param("txDate", <<"90d">>)>>]}

\* listing URLs with no query string at all, and with a page parameter only
PagingUrls ==
  Urls \cup {[path |-> "/trades", params |-> <<>>],
             [path |-> "/trades", params |-> <<Param("page", <<"7">>)>>]}

\* urlObj.searchParams.delete("page"); urlObj.toString()
RECURSIVE DeleteParam(_, _)
DeleteParam(params, n) ==
  IF params = <<>> THEN <<>>
  ELSE IF Head(params).name = n THEN DeleteParam(Tail(params), n)
       ELSE <<Head(params)>> \o DeleteParam(Tail(params), n)

BaseUrl(u) == [path |-> u.path, params |-> DeleteParam(u.params, "page")]

\* `${baseUrl}&page=${page}`: the text "&page=p" lands in the query string
\* when baseUrl has one, and in the path when it has none.
PageUrl_first(base, p) == [base |-> base, page |-> 1, inQuery |-> base.params # <<>>]

PageUrl(base, p) == [base |-> base, page |-> p, inQuery |-> base.params # <<>>]

\* `pageTrades.length === 0`
IsEmptyPage_never(pageTrades) == FALSE

IsEmptyPage(pageTrades) == Len(pageTrades) = 0

\* `trade.index = allTrades.length + 1`
Renumber_keep(trade, n) == trade

Renumber(trade, n) == [trade EXCEPT !.index = n + 1]

\* `for (const trade of pageTrades) if (allTrades.length < limit) {...push}`
MergePage_none(all, pageTrades, lim) == all

MergePage_whole(all, pageTrades, lim) ==
  all \o [i \in 1..Len(pageTrades) |-> Renumber(pageTrades[i], Len(all) + i - 1)]

RECURSIVE MergePage(_, _, _)
MergePage(all, pageTrades, lim) ==
  IF pageTrades = <<>> THEN all
  ELSE IF Len(all) < lim
       THEN MergePage(Append(all, Renumber(Head(pageTrades), Len(all))), Tail(pageTrades), lim)
       ELSE MergePage(all, Tail(pageTrades), lim)

\* `if (page === 1) throw pageError`
IsFirstPage_never(p) == FALSE

IsFirstPage_always(p) == TRUE

IsFirstPage(p) == p = 1

NoResult == [kind |-> "none", trades |-> <<>>, error |-> <<>>]

Returned(trades) == [kind |-> "returned", trades |-> trades, error |-> <<>>]

\* the outer catch: new Error(`Failed to scrape politician trades: ...`)
Threw(msg) ==
  [kind |-> "threw", trades |-> <<>>, error |-> Wrap("Failed to scrape politician trades: ", msg)]

\* Entry of scrapePoliticianTrades up to its first await: the locals are
\* set, and either the loop condition fails at once or page 1 is requested.
ScrapeBegin(u, l) ==
  /\ url' = u
  /\ limit' = l
  /\ page' = 1
  /\ allTrades' = <<>>
  /\ pageLog' = <<>>
  /\ pauses' = 0
  /\ IF 0 < l
     THEN /\ spc' = "fetching"
          /\ fetched' = <<PageUrl(BaseUrl(u), 1)>>
          /\ sres' = NoResult
     ELSE /\ spc' = "done"
          /\ fetched' = <<>>
          /\ sres' = Returned(<<>>)

\* The awaited page fetch settles (resp is what the GET came back with) and
\* the loop body runs on to the next await or to the end of the function.
ScrapeFetchSettles(resp) ==
  /\ spc = "fetching"
  /\ LET r == FetchPage(resp)
     IN  /\ pageLog' = Append(pageLog, [ok |-> r.ok, trades |-> r.trades,
                                        error |-> r.error, cause |-> resp.cause])
         /\ IF ~r.ok
            THEN \* catch (pageError)
                 /\ IF IsFirstPage(page)
                    THEN sres' = Threw(r.error)
                    ELSE sres' = Returned(allTrades)
                 /\ spc' = "done"
                 /\ UNCHANGED <<page, allTrades>>
            ELSE IF IsEmptyPage(r.trades)
            THEN \* no trades found: stop pagination
                 /\ sres' = Returned(allTrades)
                 /\ spc' = "done"
                 /\ UNCHANGED <<page, allTrades>>
            ELSE LET merged == MergePage(allTrades, r.trades, limit)
                 IN  /\ allTrades' = merged
                     /\ IF IsEmptyPage(r.trades) \/ Len(merged) >= limit
                        THEN /\ sres' = Returned(merged)
                             /\ spc' = "done"
                             /\ page' = page
                        ELSE /\ page' = page + 1
                             /\ spc' = "pausing"
                             /\ sres' = sres
  /\ UNCHANGED <<url, limit, fetched, pauses>>

\* The 500 ms timer fires; the loop condition is evaluated and the next
\* page is requested.
ScrapePauseEnds ==
  /\ spc = "pausing"
  /\ pauses' = pauses + 1
  /\ IF Len(allTrades) < limit
     THEN /\ spc' = "fetching"
          /\ fetched' = Append(fetched, PageUrl(BaseUrl(url), page))
          /\ sres' = sres
     ELSE /\ spc' = "done"
          /\ fetched' = fetched
          /\ sres' = Returned(allTrades)
  /\ UNCHANGED <<url, limit, page, allTrades, pageLog>>

\* rows the source serves to the paginator
PageRowKinds ==
  {r \in Rows : /\ r.issuerName = <<>>
                /\ r.txType \in {<<>>, <<" ", "x">>}
                /\ r.politicianName \in {<<>>, <<" ", "x">>}
                /\ r.throws => (r.txType = <<>> /\ r.politicianName = <<>>)}

PageResponses(kinds, maxRows) ==
  {[ok |-> TRUE, rows |-> rs, cause |-> ""] : rs \in SeqsUpTo(kinds, maxRows)}
  \cup {[ok |-> FALSE, rows |-> <<>>, cause |-> c] : c \in Causes}

\* The source has at most maxPages non-empty pages.
Servable(resp, p, maxPages) == p <= maxPages \/ ~resp.ok \/ resp.rows = <<>>

\* a caller (the test script, an aggregator) calls scrapePoliticianTrades
ScrapeCall(u, l) ==
  /\ spc \in {"idle", "done"}
  /\ ScrapeBegin(u, l)
  /\ UNCHANGED <<parseVars, resolveVars, toolVars>>

ScrapeFetch(resp) ==
  /\ Servable(resp, page, MaxPages)
  /\ ScrapeFetchSettles(resp)
  /\ UNCHANGED <<parseVars, resolveVars, toolVars>>

ScrapePause ==
  /\ ScrapePauseEnds
  /\ UNCHANGED <<parseVars, resolveVars, toolVars>>

\* --------------------------------------------------- identifier resolver
CACHE_TTL == 600000

\* the clock is observed around multiples of the lifetime
MaxTtlSpans == 1

ClockValues == {k * CACHE_TTL + e : k \in 0..MaxTtlSpans, e \in {-1, 0}} \cap Nat

\* requests that may be in flight at once
Procs == {"req1", "req2"}

Kinds == {"issuer", "politician"}

Queries == {<<"A">>, <<"a">>, <<"b">>}

\* String.prototype.toLowerCase, on the letters the queries use
LowerChar(c) ==
  CASE c = "A" -> "a" [] c = "B" -> "b" [] c = "D" -> "d" [] c = "O" -> "o"
    [] c = "R" -> "r" [] OTHER -> c

ToLowerCase_asIs(s) == s

ToLowerCase(s) == [i \in 1..Len(s) |-> LowerChar(s[i])]

\* `issuer:${issuer.toLowerCase()}` and `politician:${politician.toLowerCase()}`
CacheKey_kindless(kind, query) == [kind |-> "issuer", query |-> ToLowerCase(query)]

CacheKey(kind, query) == [kind |-> kind, query |-> ToLowerCase(query)]

\* `Date.now() - cached.timestamp < CACHE_TTL`
IsFresh_inclusive(entry, t) == t - entry.timestamp <= CACHE_TTL

IsFresh(entry, t) == t - entry.timestamp < CACHE_TTL

\* getCachedId: the identifier, or null
GetCachedId(cache, key, t) ==
  IF key \in DOMAIN cache /\ IsFresh(cache[key], t)
  THEN [hit |-> TRUE, id |-> cache[key].id]
  ELSE [hit |-> FALSE, id |-> <<>>]

\* setCachedId: idCache.set(key, { id, timestamp: Date.now() })
SetCachedId_evicting(cache, key, id, t) ==
  [k \in {key} |-> [id |-> id, timestamp |-> t]]

SetCachedId(cache, key, id, t) ==
  [k \in DOMAIN cache \cup {key} |->
     IF k = key THEN [id |-> id, timestamp |-> t] ELSE cache[k]]

\* "issuers/" and "politicians/"
Marker(kind) == IF kind = "issuer" THEN "issuers/" ELSE "politicians/"

\* A link target is a sequence of pieces of text: the two markers, the
\* characters "?", "#", "/" and " ", and other text.
Site == "https://www.capitoltrades.com/"

Hrefs ==
  {<<Site, "about">>,
   <<Site, "issuers/", "x">>,
   <<Site, "issuers/", "y", "?", "q">>,
   <<Site, "issuers/", "x", "#", "f">>,
   <<Site, "issuers/", "?", "q">>,
   <<Site, "issuers/">>,
   <<"http://[", "issuers/", " ">>,
   <<Site, "politicians/", "P">>,
   <<Site, "politicians/", "#", "f">>}

\* links of a search page in the extraction and tool-call specifications
MaxLinks == 2

\* links of a search page in the cache specification
MaxCacheLinks == 1

\* what the GET of the search page comes back with: the targets of its
\* links in document order, or a failure
SearchResponses(maxLinks) ==
  {[ok |-> TRUE, links |-> ls, cause |-> ""] : ls \in SeqsUpTo(Hrefs, maxLinks)}
  \cup {[ok |-> FALSE, links |-> <<>>, cause |-> c] : c \in Causes}

\* link targets with a further path segment after the identifier
NestedHrefs ==
  {<<Site, "issuers/", "x", "/", "trades">>,
   <<Site, "politicians/", "P", "/">>}

\* the search pages given to the extraction: those of the resolver, and
\* pages that also hold nested link targets
ExtractResponses ==
  SearchResponses(MaxLinks)
  \cup {[ok |-> TRUE, links |-> ls, cause |-> ""] : ls \in SeqsUpTo(Hrefs \cup NestedHrefs, MaxLinks)}

\* `link.href.includes(marker)`
Includes(href, piece) == \E i \in 1..Len(href) : href[i] = piece

\* links.find(filter): position of the first matching link, 0 when none
RECURSIVE FindIndex(_, _, _)
FindIndex(links, piece, i) ==
  IF i > Len(links) THEN 0
  ELSE IF Includes(links[i], piece) THEN i ELSE FindIndex(links, piece, i + 1)

\* String.prototype.split(separator)
RECURSIVE Split(_, _, _)
Split(s, sep, current) ==
  IF s = <<>> THEN <<current>>
  ELSE IF Head(s) = sep THEN <<current>> \o Split(Tail(s), sep, <<>>)
       ELSE Split(Tail(s), sep, Append(current, Head(s)))

\* `idWithParams.split("?")[0].split("#")[0].trim()`
StripId(idWithParams) == Trim(Split(Split(idWithParams, "?", <<>>)[1], "#", <<>>)[1])

IdErrorPrefix(kind) ==
  IF kind = "issuer" THEN "Failed to get issuer ID for " ELSE "Failed to get politician ID for "

InvalidUrlText(kind) ==
  IF kind = "issuer" THEN "Invalid issuer URL format: " ELSE "Invalid politician URL format: "

NoIdText(kind) ==
  IF kind = "issuer" THEN "Could not extract issuer ID from URL: "
  ELSE "Could not extract politician ID from URL: "

\* the catch of getIssuerId / getPoliticianId:
\* new Error(`Failed to get issuer ID for "${issuer}": ${errorMessage}`)
IdError_lowered(kind, query, msg) ==
  [ok |-> FALSE, id |-> <<>>, error |-> <<WithArg(IdErrorPrefix(kind), ToLowerCase(query))>> \o msg]

IdError(kind, query, msg) ==
  [ok |-> FALSE, id |-> <<>>, error |-> <<WithArg(IdErrorPrefix(kind), query)>> \o msg]

\* the try block of getIssuerId / getPoliticianId once the search page has
\* come back: findLink, then the identifier cut out of the link's target
ExtractId(kind, query, resp) ==
  IF ~resp.ok
  THEN IdError(kind, query, <<Lit("Failed to extract links: "), Lit(resp.cause)>>)
  ELSE LET i == FindIndex(resp.links, Marker(kind), 1)
       IN  IF i = 0
           THEN IdError(kind, query, <<Lit("No link matched the filter criteria")>>)
           ELSE LET targetUrl == resp.links[i]
                    urlParts  == Split(targetUrl, Marker(kind), <<>>)
                IN  IF Len(urlParts) < 2
                    THEN IdError(kind, query, <<WithArg(InvalidUrlText(kind), targetUrl)>>)
                    ELSE IF StripId(urlParts[2]) = <<>>
                    THEN IdError(kind, query, <<WithArg(NoIdText(kind), targetUrl)>>)
                    ELSE [ok |-> TRUE, id |-> StripId(urlParts[2]), error |-> <<>>]

NoExtraction == [called |-> FALSE, ok |-> FALSE, id |-> <<>>, error |-> <<>>]

ExtractCall ==
  /\ ~xout.called
  /\ LET r == ExtractId(xin.kind, xin.query, xin.resp)
     IN  xout' = [called |-> TRUE, ok |-> r.ok, id |-> r.id, error |-> r.error]
  /\ UNCHANGED <<prows, pout, xin, ain, aout, scrapeVars, resolveVars, toolVars>>

NoRequest == [kind |-> "", query |-> <<>>, at |-> 0]

NoResolution == [kind |-> "none", id |-> <<>>, error |-> <<>>, fetched |-> FALSE]

\* Entry of getIssuerId / getPoliticianId up to the first await: a fresh
\* cache entry is returned at once, otherwise the search page is requested.
ResolveBegin(p, kind, query) ==
  /\ rreq' = [rreq EXCEPT ![p] = [kind |-> kind, query |-> query, at |-> now]]
  /\ LET c == GetCachedId(idCache, CacheKey(kind, query), now)
     IN  IF c.hit
         THEN /\ rpc' = [rpc EXCEPT ![p] = "done"]
              /\ rres' = [rres EXCEPT ![p] =
                   [kind |-> "returned", id |-> c.id, error |-> <<>>, fetched |-> FALSE]]
         ELSE /\ rpc' = [rpc EXCEPT ![p] = "fetching"]
              /\ rres' = [rres EXCEPT ![p] = NoResolution]
  /\ UNCHANGED <<idCache, now, lastFetched>>

\* setCachedId called before the result of the extraction is checked
ResolveFetchSettles_cacheFirst(p, resp) ==
  /\ rpc[p] = "fetching"
  /\ LET r   == ExtractId(rreq[p].kind, rreq[p].query, resp)
         key == CacheKey(rreq[p].kind, rreq[p].query)
     IN  /\ idCache' = SetCachedId(idCache, key, r.id, now)
         /\ lastFetched' = SetCachedId(lastFetched, key, r.id, now)
         /\ rres' = [rres EXCEPT ![p] =
              [kind |-> IF r.ok THEN "returned" ELSE "threw", id |-> r.id,
               error |-> r.error, fetched |-> TRUE]]
  /\ rpc' = [rpc EXCEPT ![p] = "done"]
  /\ UNCHANGED <<now, rreq>>

\* The search request settles: the identifier is extracted and cached, or
\* the error is wrapped and thrown.
ResolveFetchSettles(p, resp) ==
  /\ rpc[p] = "fetching"
  /\ LET r   == ExtractId(rreq[p].kind, rreq[p].query, resp)
         key == CacheKey(rreq[p].kind, rreq[p].query)
     IN  IF r.ok
         THEN /\ idCache' = SetCachedId(idCache, key, r.id, now)
              /\ lastFetched' = SetCachedId(lastFetched, key, r.id, now)
              /\ rres' = [rres EXCEPT ![p] =
                   [kind |-> "returned", id |-> r.id, error |-> <<>>, fetched |-> TRUE]]
         ELSE /\ rres' = [rres EXCEPT ![p] =
                   [kind |-> "threw", id |-> <<>>, error |-> r.error, fetched |-> TRUE]]
              /\ UNCHANGED <<idCache, lastFetched>>
  /\ rpc' = [rpc EXCEPT ![p] = "done"]
  /\ UNCHANGED <<now, rreq>>

\* a caller calls getIssuerId or getPoliticianId
ResolveCall(p, kind, query) ==
  /\ rpc[p] \in {"idle", "done"}
  /\ ResolveBegin(p, kind, query)
  /\ UNCHANGED <<parseVars, scrapeVars, toolVars>>

ResolveFetch(p, resp) ==
  /\ ResolveFetchSettles(p, resp)
  /\ UNCHANGED <<parseVars, scrapeVars, toolVars>>

\* time passes
Tick(t) ==
  /\ t > now
  /\ now' = t
  /\ UNCHANGED <<parseVars, scrapeVars, toolVars, idCache, rpc, rreq, rres, lastFetched>>

\* ---------------------------------------------------- tool-call handler
\* An argument of a tool call: whether the caller gave it, and its value.
Absent == [given |-> FALSE, value |-> 0]

Num(n) == [given |-> TRUE, value |-> n]

NoText == [given |-> FALSE, value |-> <<>>]

Text(t) == [given |-> TRUE, value |-> t]

NoWord == [given |-> FALSE, value |-> ""]

Word(w) == [given |-> TRUE, value |-> w]

ToolRequest(name, hasArgs, lim, days, symbol, politician, party, type) ==
  [name |-> name, hasArgs |-> hasArgs, limit |-> lim, days |-> days, symbol |-> symbol,
   politician |-> politician, party |-> party, type |-> type]

NoToolRequest == ToolRequest("", FALSE, Absent, Absent, NoText, NoText, NoWord, NoText)

\* `(args.limit as number) || 10`: an absent argument and 0 both give the default
OrDefault(arg, default) == IF ~arg.given \/ arg.value = 0 THEN default ELSE arg.value

\* `if (!politician)`: undefined and "" are both falsy
Truthy(arg) == arg.given /\ arg.value # <<>>

AllowedDays == {30, 90, 180, 365}

AllowedParties == {"DEMOCRAT", "REPUBLICAN"}

AllowedTypes == <<"BUY", "SELL", "RECEIVE", "EXCHANGE">>

Elements(seq) == {seq[i] : i \in 1..Len(seq)}

DaysError == Lit("days must be one of: 30, 90, 180, 365")

Valid == [ok |-> TRUE, error |-> <<>>]

Invalid(part) == [ok |-> FALSE, error |-> <<part>>]

\* `if (!allowedDays.includes(days)) throw ...`
CheckDays(req) ==
  IF OrDefault(req.days, 90) \in AllowedDays THEN Valid ELSE Invalid(DaysError)

\* `if (limit < 1 || limit > max) throw ...`
CheckLimit(req, default, max, text) ==
  IF OrDefault(req.limit, default) < 1 \/ OrDefault(req.limit, default) > max
  THEN Invalid(Lit(text)) ELSE Valid

\* the first check that fails decides
FirstFailure(checks) ==
  IF \E i \in 1..Len(checks) : ~checks[i].ok
  THEN checks[CHOOSE i \in 1..Len(checks) : ~checks[i].ok /\ \A k \in 1..(i - 1) : checks[k].ok]
  ELSE Valid

\* the part of the handler's switch that runs before the operation is called
Validate(req) ==
  IF ~req.hasArgs THEN Invalid(Lit("Arguments are required"))
  ELSE CASE req.name = "get_politician_trades" ->
              FirstFailure(<<
                CheckDays(req),
                IF req.party.given /\ req.party.value \notin AllowedParties
                THEN Invalid(Lit("party must be 'DEMOCRAT' or 'REPUBLICAN'")) ELSE Valid,
                IF \E t \in Elements(req.type.value) : t \notin Elements(AllowedTypes)
                THEN Invalid(Lit("Each type must be one of: BUY, SELL, RECEIVE, EXCHANGE")) ELSE Valid>>)
         [] req.name = "get_top_traded_assets" ->
              FirstFailure(<<CheckDays(req), CheckLimit(req, 10, 50, "limit must be between 1 and 50")>>)
         [] req.name = "get_politician_stats" ->
              FirstFailure(<<
                IF Truthy(req.politician) THEN Valid ELSE Invalid(Lit("politician is required")),
                CheckDays(req)>>)
         [] req.name = "get_asset_stats" ->
              FirstFailure(<<
                IF Truthy(req.symbol) THEN Valid ELSE Invalid(Lit("symbol is required")),
                CheckDays(req)>>)
         [] req.name = "get_buy_momentum_assets" ->
              FirstFailure(<<CheckDays(req), CheckLimit(req, 10, 50, "limit must be between 1 and 50")>>)
         [] req.name = "get_party_buy_momentum" ->
              FirstFailure(<<CheckDays(req), CheckLimit(req, 5, 20, "limit must be between 1 and 20")>>)
         [] OTHER -> Invalid(WithArg("Unknown tool: ", <<req.name>>))

\* which identifiers the operation resolves before it collects trades
NeedsIssuer(req) ==
  \/ req.name = "get_asset_stats"
  \/ req.name = "get_politician_trades" /\ Truthy(req.symbol)

NeedsPolitician(req) ==
  \/ req.name = "get_politician_stats"
  \/ req.name = "get_politician_trades" /\ Truthy(req.politician)

\* the limit the operation passes to scrapePoliticianTrades
ScrapeLimit(name) ==
  CASE name = "get_politician_trades" -> 50
    [] name \in {"get_politician_stats", "get_asset_stats"} -> 200
    [] OTHER -> 500

\* the text each operation's catch puts before the underlying message
OperationErrorPrefix(name) ==
  CASE name = "get_politician_trades" -> "Failed to get politician trades: "
    [] name = "get_top_traded_assets" -> "Failed to get top traded stocks: "
    [] name = "get_politician_stats" -> "Failed to get politician stats: "
    [] name = "get_asset_stats" -> "Failed to get asset stats: "
    [] name = "get_buy_momentum_assets" -> "Failed to get buy momentum assets: "
    [] OTHER -> "Failed to get party buy momentum: "

\* the catch of the operation: new Error(`Failed to get ...: ${errorMessage}`)
OperationCatch(name, msg) == Wrap(OperationErrorPrefix(name), msg)

\* toLowerCase on the enumerated argument values
LowerWord(w) ==
  CASE w = "DEMOCRAT" -> "democrat" [] w = "REPUBLICAN" -> "republican"
    [] w = "BUY" -> "buy" [] w = "SELL" -> "sell"
    [] w = "RECEIVE" -> "receive" [] w = "EXCHANGE" -> "exchange"
    [] OTHER -> w

\* `type.map(t => t.toLowerCase()).join(",")`
RECURSIVE JoinLower(_)
JoinLower(type) ==
  IF type = <<>> THEN <<>>
  ELSE IF Len(type) = 1 THEN <<LowerWord(type[1])>>
  ELSE <<LowerWord(type[1]), ",">> \o JoinLower(Tail(type))

\* `type.length === 0 || hasAllTypes`
IsAllTypes(type) ==
  Len(type) = 0 \/ (Len(type) = 4 /\ \A t \in Elements(AllowedTypes) : t \in Elements(type))

DaysText(d) ==
  CASE d = 30 -> "30d" [] d = 90 -> "90d" [] d = 180 -> "180d" [] OTHER -> "365d"

\* the query parameters an operation adds after the resolved identifiers
FilterParams(req) ==
  (IF req.name = "get_politician_trades" /\ req.party.given
   THEN <<Param("party", <<LowerWord(req.party.value)>>)>> ELSE <<>>)
  \o (IF req.name = "get_politician_trades" /\ ~IsAllTypes(req.type.value)
      THEN <<Param("txType", JoinLower(req.type.value))>> ELSE <<>>)
  \o <<Param("txDate", <<DaysText(OrDefault(req.days, 90))>>)>>

TradesUrl(req, idParams) == [path |-> "/trades", params |-> idParams \o FilterParams(req)]

NoReport == [tool |-> "", totalTrades |-> 0, trades |-> <<>>]

\* the report an operation computes from the trades it collected
Report(name, trades) == [tool |-> name, totalTrades |-> Len(trades), trades |-> trades]

\* `type.length === 0 || hasAllTypes ? "ALL" : type`
FilterType(type) ==
  IF IsAllTypes(type) THEN [all |-> TRUE, types |-> <<>>] ELSE [all |-> FALSE, types |-> type]

\* the report of getPoliticianTrades: the filters as applied, and the trades
TradesReport(req, trades) ==
  [tool        |-> req.name,
   filters     |-> [party |-> IF req.party.given THEN req.party.value ELSE "ALL",
                    type  |-> FilterType(req.type.value),
                    days  |-> OrDefault(req.days, 90)],
   totalTrades |-> Len(trades),
   trades      |-> trades]

NoResponse == [kind |-> "none", isError |-> FALSE, text |-> <<>>, report |-> NoReport]

\* `return { content: [{ type: "text", text: JSON.stringify(result) }] }`
ResultResponse(report) == [kind |-> "result", isError |-> FALSE, text |-> <<>>, report |-> report]

\* the handler's catch: `text: Error: ${errorMessage}`, isError: true
HandlerCatch_rethrow(msg) == [kind |-> "thrown", isError |-> FALSE, text |-> msg, report |-> NoReport]

HandlerCatch(msg) ==
  [kind |-> "error", isError |-> TRUE, text |-> Wrap("Error: ", msg), report |-> NoReport]

\* the request whose resolutions the handler awaits
Caller == "req1"

\* no invocation of scrapePoliticianTrades belongs to the call
NoScrape ==
  /\ spc' = "idle"
  /\ limit' = 0
  /\ page' = 1
  /\ allTrades' = <<>>
  /\ fetched' = <<>>
  /\ pageLog' = <<>>
  /\ pauses' = 0
  /\ sres' = NoResult
  /\ url' = [path |-> "/trades", params |-> <<>>]

\* no invocation of getIssuerId / getPoliticianId belongs to the call
NoResolve ==
  /\ rpc' = [rpc EXCEPT ![Caller] = "idle"]
  /\ rreq' = [rreq EXCEPT ![Caller] = NoRequest]
  /\ rres' = [rres EXCEPT ![Caller] = NoResolution]
  /\ UNCHANGED <<idCache, now, lastFetched>>

\* the operation calls getIssuerId or getPoliticianId and awaits it
StartResolve(kind, query, stage, params, net) ==
  /\ ResolveBegin(Caller, kind, query)
  /\ hpc' = stage
  /\ hparams' = params
  /\ hnet' = net + (IF rpc'[Caller] = "fetching" THEN 1 ELSE 0)
  /\ hresp' = NoResponse

\* the operation builds the URL, calls scrapePoliticianTrades and awaits it
StartScrape(req, params, net) ==
  /\ ScrapeBegin(TradesUrl(req, params), ScrapeLimit(req.name))
  /\ hpc' = "scraping"
  /\ hparams' = params
  /\ hnet' = net + (IF spc' = "fetching" THEN 1 ELSE 0)
  /\ hresp' = NoResponse

\* the handler returns its response
Respond(resp) ==
  /\ hpc' = "done"
  /\ hresp' = resp

\* A tool call arrives: the arguments are validated and, when they pass,
\* the operation runs up to its first await.
ToolCall(req) ==
  /\ hpc = "idle"
  /\ hreq' = req
  /\ IF ~Validate(req).ok
     THEN /\ Respond(HandlerCatch(Validate(req).error))
          /\ hparams' = <<>>
          /\ hnet' = 0
          /\ NoScrape
          /\ NoResolve
     ELSE IF NeedsIssuer(req)
     THEN StartResolve("issuer", req.symbol.value, "resolvingIssuer", <<>>, 0) /\ NoScrape
     ELSE IF NeedsPolitician(req)
     THEN StartResolve("politician", req.politician.value, "resolvingPolitician", <<>>, 0) /\ NoScrape
     ELSE StartScrape(req, <<>>, 0) /\ NoResolve
  /\ UNCHANGED parseVars

\* an awaited resolution has settled and the operation runs on
ToolAfterResolve ==
  /\ hpc \in {"resolvingIssuer", "resolvingPolitician"}
  /\ rpc[Caller] = "done"
  /\ IF rres[Caller].kind = "threw"
     THEN /\ Respond(HandlerCatch(OperationCatch(hreq.name, rres[Caller].error)))
          /\ UNCHANGED <<hparams, hnet, scrapeVars, resolveVars>>
     ELSE IF hpc = "resolvingIssuer"
     THEN IF NeedsPolitician(hreq)
          THEN /\ StartResolve("politician", hreq.politician.value, "resolvingPolitician",
                               <<Param("issuer", rres[Caller].id)>>, hnet)
               /\ UNCHANGED scrapeVars
          ELSE /\ StartScrape(hreq, <<Param("issuer", rres[Caller].id)>>, hnet)
               /\ UNCHANGED resolveVars
     ELSE /\ StartScrape(hreq, Append(hparams, Param("politician", rres[Caller].id)), hnet)
          /\ UNCHANGED resolveVars
  /\ UNCHANGED <<parseVars, hreq>>

\* the awaited scrapePoliticianTrades has settled: report or error
ToolAfterScrape ==
  /\ hpc = "scraping"
  /\ spc = "done"
  /\ IF sres.kind = "threw"
     THEN Respond(HandlerCatch(OperationCatch(hreq.name, sres.error)))
     ELSE IF hreq.name = "get_politician_trades"
     THEN Respond(ResultResponse(TradesReport(hreq, sres.trades)))
     ELSE Respond(ResultResponse(Report(hreq.name, sres.trades)))
  /\ UNCHANGED <<parseVars, scrapeVars, resolveVars, hreq, hparams, hnet>>

\* the search request of the awaited resolution settles
ToolResolveFetch(resp) ==
  /\ hpc \in {"resolvingIssuer", "resolvingPolitician"}
  /\ ResolveFetchSettles(Caller, resp)
  /\ UNCHANGED <<parseVars, scrapeVars, toolVars>>

\* during a tool call the source serves no non-empty page after this one
MaxToolPages == 1

\* the page request of the awaited collection settles
ToolScrapeFetch(resp) ==
  /\ hpc = "scraping"
  /\ Servable(resp, page, MaxToolPages)
  /\ ScrapeFetchSettles(resp)
  /\ UNCHANGED <<parseVars, resolveVars, toolVars>>

\* the pause of the awaited collection ends
ToolScrapePause ==
  /\ hpc = "scraping"
  /\ ScrapePauseEnds
  /\ hnet' = hnet + (IF spc' = "fetching" THEN 1 ELSE 0)
  /\ UNCHANGED <<parseVars, resolveVars, hpc, hreq, hparams, hresp>>

\* The response has been sent: the handler sits idle until the next call.
ToolReturn ==
  /\ hpc = "done"
  /\ hpc' = "idle"
  /\ hreq' = NoToolRequest
  /\ hparams' = <<>>
  /\ hresp' = NoResponse
  /\ hnet' = 0
  /\ NoScrape
  /\ NoResolve
  /\ UNCHANGED parseVars

\* rows of one page offered to a tool call's collection
MaxToolRows == 1

ToolRowKinds ==
  {r \in Rows : ~r.throws /\ r.issuerName = <<>> /\ r.txType = <<>>
                /\ r.politicianName \in {<<>>, <<" ", "x">>}}

NumArgs == {Absent, Num(0), Num(1), Num(20), Num(21), Num(50), Num(51)}

DayArgs == {Absent, Num(0), Num(30), Num(45)}

\* further type arguments: empty, one type, the four types, and the four
\* types with one of them given twice
TypeArgs ==
  {Text(<<>>), Text(<<"RECEIVE">>),
   Text(<<"SELL", "BUY", "EXCHANGE", "RECEIVE">>),
   Text(<<"BUY", "SELL", "RECEIVE", "EXCHANGE", "BUY">>)}

\* the tool calls the handler is driven with
ToolRequests ==
  {ToolRequest(n, TRUE, l, d, NoText, NoText, NoWord, NoText) :
     n \in {"get_top_traded_assets", "get_buy_momentum_assets", "get_party_buy_momentum"},
     l \in NumArgs, d \in DayArgs}
  \cup {ToolRequest("get_politician_stats", TRUE, Absent, d, NoText, q, NoWord, NoText) :
          d \in DayArgs, q \in {NoText, Text(<<>>), Text(<<"A">>)}}
  \cup {ToolRequest("get_asset_stats", TRUE, Absent, d, q, NoText, NoWord, NoText) :
          d \in DayArgs, q \in {NoText, Text(<<>>), Text(<<"A">>)}}
  \cup {ToolRequest("get_politician_trades", TRUE, Absent, d, q, pq, pa, ty) :
          d \in DayArgs, q \in {NoText, Text(<<"A">>)}, pq \in {NoText, Text(<<"a">>)},
          pa \in {NoWord, Word("DEMOCRAT"), Word("GREEN")},
          ty \in {NoText, Text(<<"BUY", "SELL">>), Text(<<"HOLD">>)}}
  \cup {ToolRequest("get_politician_trades", TRUE, Absent, Absent, NoText, NoText, NoWord, ty) :
          ty \in TypeArgs}
  \cup {ToolRequest(n, FALSE, Absent, Absent, NoText, NoText, NoWord, NoText) :
          n \in {"get_top_traded_assets", "delete_everything"}}
  \cup {ToolRequest("delete_everything", TRUE, Absent, Absent, NoText, NoText, NoWord, NoText)}

\* ------------------------------------------------------------ analyses
\* The fields of a collected trade that the analyses read.  Text is a
\* sequence of pieces; a transaction type and a party start with the one
\* character whose case varies.
AnalysisTrade(politician, party, issuer, ticker, txType) ==
  [politician |-> politician, party |-> party, issuer |-> issuer,
   ticker |-> ticker, txType |-> txType]

NoTicker == <<"N/A">>

UnknownName == <<"Unknown">>

\* `trade.issuer.name || "Unknown"`
IssuerKey(trade) == IF trade.issuer = EmptyText THEN UnknownName ELSE trade.issuer

\* `trade.politician.name || "Unknown"`
PoliticianKey(trade) == IF trade.politician = EmptyText THEN UnknownName ELSE trade.politician

\* the key of each trade, in the order of the trades
IssuerKeys(trades) == [i \in 1..Len(trades) |-> IssuerKey(trades[i])]

PoliticianKeys(trades) == [i \in 1..Len(trades) |-> PoliticianKey(trades[i])]

\* the keys of the Map filled by one pass over the trades, in insertion
\* order; keys[i] is the key of trade i
GroupKeys(keys) ==
  LET first == SelectSeq([i \in 1..Len(keys) |-> i],
                         LAMBDA i : \A j \in 1..(i - 1) : keys[j] # keys[i])
  IN  [k \in 1..Len(first) |-> keys[first[k]]]

\* the trades that the pass adds to the entry of key k
GroupOf(trades, keys, k) ==
  LET members == SelectSeq([i \in 1..Len(keys) |-> i], LAMBDA i : keys[i] = k)
  IN  [m \in 1..Len(members) |-> trades[members[m]]]

\* Array.prototype.sort with a compare function, whose value for items i
\* and j is compare[i][j]: the sort is stable, so an item is preceded by
\* the items that compare before it and by the earlier items that compare
\* equal to it
Sort(items, compare) ==
  LET n == Len(items)
      rank(i) == Cardinality({j \in 1..n : compare[j][i] < 0})
                 + Cardinality({j \in 1..(i - 1) : compare[j][i] = 0}) + 1
  IN  [k \in 1..n |-> items[CHOOSE i \in 1..n : rank(i) = k]]

\* Array.prototype.slice(0, n) for n >= 0
Slice(items, n) == SubSeq(items, 1, IF n < Len(items) THEN n ELSE Len(items))

\* `(x).toFixed(2)` of the quotient num / den, in hundredths
ToFixed2_floor(num, den) == (100 * num) \div den

ToFixed2(num, den) == (200 * num + den) \div (2 * den)

\* ---- getTopTradedStocks
\* the ticker kept for an issuer: the first trade's, replaced by each later
\* one that is available
RECURSIVE LatestTicker(_, _)
LatestTicker(group, ticker) ==
  IF group = <<>> THEN ticker
  ELSE LatestTicker(Tail(group),
                    IF Head(group).ticker # EmptyText /\ Head(group).ticker # NoTicker
                    THEN Head(group).ticker ELSE ticker)

StockCounts(trades) ==
  LET keys == GroupKeys(IssuerKeys(trades))
  IN  [k \in 1..Len(keys) |->
         LET group == GroupOf(trades, IssuerKeys(trades), keys[k])
         IN  [issuer     |-> keys[k],
              ticker     |-> LatestTicker(group, group[1].ticker),
              tradeCount |-> Len(group)]]

\* `(a, b) => b.tradeCount - a.tradeCount`
ByTradeCount_ascending(a, b) == a.tradeCount - b.tradeCount

ByTradeCount(a, b) == b.tradeCount - a.tradeCount

GetTopTradedStocks(trades, lim) ==
  LET counts == StockCounts(trades)
      sortedStocks == Slice(Sort(counts, [i \in 1..Len(counts) |-> [j \in 1..Len(counts) |-> ByTradeCount(counts[i], counts[j])]]), lim)
  IN  [limit |-> lim, totalStocks |-> Len(sortedStocks), stocks |-> sortedStocks]

\* ---- getPoliticianStats and getAssetStats
TypeBuy == <<"b", "uy">>
TypeSell == <<"s", "ell">>
TypeReceive == <<"r", "eceive">>
TypeExchange == <<"e", "xchange">>

\* `t.transaction.type?.toLowerCase() === word`
TypeIs_exact(trade, word) == trade.txType = word

TypeIs(trade, word) == ToLowerCase(trade.txType) = word

CountType(trades, word) == Len(SelectSeq(trades, LAMBDA t : TypeIs(t, word)))

\* the buy/sell ratio of the two statistics, in hundredths
BuySellRatio(buys, sells) ==
  IF sells > 0 THEN ToFixed2(buys, sells)
  ELSE IF buys > 0 THEN 100 * buys
  ELSE 0

\* `(a, b) => b.transactionCount - a.transactionCount`
ByTransactionCount(a, b) == b.transactionCount - a.transactionCount

MostTradedAssets(trades) ==
  LET keys == GroupKeys(IssuerKeys(trades))
      counts == [k \in 1..Len(keys) |->
                   LET group == GroupOf(trades, IssuerKeys(trades), keys[k])
                   IN  [issuer |-> keys[k], ticker |-> group[1].ticker,
                        transactionCount |-> Len(group)]]
  IN  Slice(Sort(counts, [i \in 1..Len(counts) |-> [j \in 1..Len(counts) |-> ByTransactionCount(counts[i], counts[j])]]), 10)

MostActiveTraders(trades) ==
  LET keys == GroupKeys(PoliticianKeys(trades))
      counts == [k \in 1..Len(keys) |->
                   LET group == GroupOf(trades, PoliticianKeys(trades), keys[k])
                   IN  [politician |-> keys[k], party |-> group[1].party,
                        transactionCount |-> Len(group)]]
  IN  Slice(Sort(counts, [i \in 1..Len(counts) |-> [j \in 1..Len(counts) |-> ByTransactionCount(counts[i], counts[j])]]), 10)

TradeStats(trades) ==
  [totalTrades  |-> Len(trades),
   buys         |-> CountType(trades, TypeBuy),
   sells        |-> CountType(trades, TypeSell),
   receives     |-> CountType(trades, TypeReceive),
   exchanges    |-> CountType(trades, TypeExchange),
   buySellRatio |-> BuySellRatio(CountType(trades, TypeBuy), CountType(trades, TypeSell))]

GetPoliticianStats(trades) ==
  [stats |-> TradeStats(trades), mostTradedAssets |-> MostTradedAssets(trades)]

GetAssetStats(trades) ==
  [stats |-> TradeStats(trades), mostActiveTraders |-> MostActiveTraders(trades)]

\* ---- getBuyMomentumAssets
\* `data.sells > 0 ? data.buys / data.sells : data.buys`, as a fraction
MomentumRatio(buys, sells) == [num |-> buys, den |-> IF sells > 0 THEN sells ELSE 1]

AssetMap(trades) ==
  LET keys == GroupKeys(IssuerKeys(trades))
  IN  [k \in 1..Len(keys) |->
         LET group == GroupOf(trades, IssuerKeys(trades), keys[k])
             buys == CountType(group, TypeBuy)
             sells == CountType(group, TypeSell)
         IN  [name |-> keys[k], ticker |-> group[1].ticker, buys |-> buys, sells |-> sells,
              totalTrades |-> Len(group), buySellRatio |-> MomentumRatio(buys, sells)]]

\* `asset => asset.buys > asset.sells`
IsNetBuyer_orEqual(asset) == asset.buys >= asset.sells

IsNetBuyer_any(asset) == TRUE

IsNetBuyer(asset) == asset.buys > asset.sells

\* the compare function of the momentum sort: ratio, then buys
ByMomentum_ratioOnly(a, b) ==
  b.buySellRatio.num * a.buySellRatio.den - a.buySellRatio.num * b.buySellRatio.den

ByMomentum(a, b) ==
  LET ratioDiff == b.buySellRatio.num * a.buySellRatio.den
                   - a.buySellRatio.num * b.buySellRatio.den
  IN  IF ratioDiff # 0 THEN ratioDiff ELSE b.buys - a.buys

\* sort, slice and the final map that attaches the rank, applied to the
\* entries the filter kept
MomentumRanking(kept, lim) ==
  LET top == Slice(Sort(kept, [i \in 1..Len(kept) |-> [j \in 1..Len(kept) |-> ByMomentum(kept[i], kept[j])]]), lim)
  IN  [index \in 1..Len(top) |->
         [rank              |-> index,
          issuer            |-> top[index].name,
          ticker            |-> top[index].ticker,
          buys              |-> top[index].buys,
          sells             |-> top[index].sells,
          netBuys           |-> top[index].buys - top[index].sells,
          buySellRatio      |-> ToFixed2(top[index].buySellRatio.num, top[index].buySellRatio.den),
          totalTransactions |-> top[index].totalTrades]]

MomentumReport(lim, assets) == [limit |-> lim, totalAssets |-> Len(assets), assets |-> assets]

GetBuyMomentumAssets(trades, lim) ==
  MomentumReport(lim, MomentumRanking(SelectSeq(AssetMap(trades), IsNetBuyer), lim))

\* ---- getPartyBuyMomentum
\* String.prototype.includes
IncludesText(s, sub) == \E i \in 0..(Len(s) - Len(sub)) : SubSeq(s, i + 1, i + Len(sub)) = sub

\* `partyLower.includes('democrat')`
IsDemocrat(trade) == IncludesText(ToLowerCase(trade.party), <<"d", "emocrat">>)

\* `partyLower.includes('republican')`
IsRepublican(trade) == IncludesText(ToLowerCase(trade.party), <<"r", "epublican">>)

PartyCounts(group) == [buys |-> CountType(group, TypeBuy), sells |-> CountType(group, TypeSell)]

PartyAssetMap(trades) ==
  LET keys == GroupKeys(IssuerKeys(trades))
  IN  [k \in 1..Len(keys) |->
         LET group == GroupOf(trades, IssuerKeys(trades), keys[k])
         IN  [name |-> keys[k], ticker |-> group[1].ticker,
              democrats   |-> PartyCounts(SelectSeq(group, IsDemocrat)),
              republicans |-> PartyCounts(SelectSeq(group, IsRepublican))]]

DemNet(data) == data.democrats.buys - data.democrats.sells
RepNet(data) == data.republicans.buys - data.republicans.sells
DemTotal(data) == data.democrats.buys + data.democrats.sells
RepTotal(data) == data.republicans.buys + data.republicans.sells

\* `demNet > 0 && repNet > 0 && demTotal >= 2 && repTotal >= 2`
IsConsensus_anyActivity(data) == DemNet(data) > 0 /\ RepNet(data) > 0

IsConsensus(data) ==
  DemNet(data) > 0 /\ RepNet(data) > 0 /\ DemTotal(data) >= 2 /\ RepTotal(data) >= 2

\* `demNet > 0 && demTotal >= repTotal`
IsDemocratFavorite_strict(data) == DemNet(data) > 0 /\ DemTotal(data) > RepTotal(data)

IsDemocratFavorite(data) == DemNet(data) > 0 /\ DemTotal(data) >= RepTotal(data)

\* `repNet > 0 && repTotal >= demTotal`
IsRepublicanFavorite(data) == RepNet(data) > 0 /\ RepTotal(data) >= DemTotal(data)

\* the entry pushed to a category, with the category's score
PartyEntry(data, score) ==
  [issuer      |-> data.name,
   ticker      |-> data.ticker,
   democrats   |-> [buys |-> data.democrats.buys, sells |-> data.democrats.sells,
                    netBuys |-> DemNet(data)],
   republicans |-> [buys |-> data.republicans.buys, sells |-> data.republicans.sells,
                    netBuys |-> RepNet(data)],
   score       |-> score]

\* `(a, b) => b.score - a.score`
ByScore(a, b) == b.score - a.score

\* `category.slice(0, limit).map((asset, idx) => ({ rank: idx + 1, ...asset }))`
RankCategory(category, lim) ==
  LET top == Slice(Sort(category, [i \in 1..Len(category) |-> [j \in 1..Len(category) |-> ByScore(category[i], category[j])]]), lim)
  IN  [idx \in 1..Len(top) |-> [rank |-> idx, asset |-> top[idx]]]

GetPartyBuyMomentum(trades, lim) ==
  LET assets == PartyAssetMap(trades)
      entries(Is(_), Score(_)) ==
        LET chosen == SelectSeq(assets, Is)
        IN  [i \in 1..Len(chosen) |-> PartyEntry(chosen[i], Score(chosen[i]))]
      both(data) == DemNet(data) + RepNet(data)
  IN  [limit               |-> lim,
       consensus           |-> RankCategory(entries(IsConsensus, both), lim),
       democratFavorites   |-> RankCategory(entries(IsDemocratFavorite, DemNet), lim),
       republicanFavorites |-> RankCategory(entries(IsRepublicanFavorite, RepNet), lim)]

\* ---- the analyses as operations on a collected trade set
NoAnalysis == [called |-> FALSE, op |-> "", report |-> <<>>]

Analysed(op, report) == [called |-> TRUE, op |-> op, report |-> report]

AnalysisDone(op, report) ==
  /\ ~aout.called
  /\ aout' = Analysed(op, report)
  /\ UNCHANGED <<prows, pout, xin, xout, ain, scrapeVars, resolveVars, toolVars>>

TopTradedCall == AnalysisDone("getTopTradedStocks", GetTopTradedStocks(ain.trades, ain.limit))

PoliticianStatsCall == AnalysisDone("getPoliticianStats", GetPoliticianStats(ain.trades))

AssetStatsCall == AnalysisDone("getAssetStats", GetAssetStats(ain.trades))

BuyMomentumCall == AnalysisDone("getBuyMomentumAssets", GetBuyMomentumAssets(ain.trades, ain.limit))

PartyMomentumCall == AnalysisDone("getPartyBuyMomentum", GetPartyBuyMomentum(ain.trades, ain.limit))

\* ---- collected trade sets offered to the analyses
\* trades of a set offered to getTopTradedStocks
MaxTopTrades == 4
\* trades of a set offered to the two statistics
MaxStatTrades == 5
\* buys and sells of one issuer in a set offered to getBuyMomentumAssets
MaxBuys == 6
MaxSells == 2
\* buys of one party for one issuer in a set offered to getPartyBuyMomentum
MaxPartyBuys == 2
\* largest limit passed to getPartyBuyMomentum
MaxPartyLimit == 2
\* largest limit passed to an analysis
MaxAnalysisLimit == 3

Democrat == <<"D", "emocrat">>
Republican == <<"R", "epublican">>
OtherParty == <<"O", "ther">>
TypeGift == <<"g", "ift">>

Repeat(x, n) == [i \in 1..n |-> x]

RECURSIVE Concat(_)
Concat(seqs) == IF seqs = <<>> THEN <<>> ELSE Head(seqs) \o Concat(Tail(seqs))

\* trades of three issuers, with and without a ticker
TopTradeKinds ==
  {AnalysisTrade(<<"P">>, Democrat, issuer, ticker, TypeBuy) :
     issuer \in {<<"A">>, <<"B">>, <<"C">>}, ticker \in {NoTicker, <<"T">>}}

TopInputs ==
  {[trades |-> ts, limit |-> l] : ts \in SeqsUpTo(TopTradeKinds, MaxTopTrades), l \in 0..MaxAnalysisLimit}

\* transaction types as the page may give them
StatTypes == {TypeBuy, <<"B", "uy">>, TypeSell, TypeReceive, TypeExchange, TypeGift}

StatName(i) == IF i % 2 = 1 THEN <<"A">> ELSE <<"B">>

StatTrades(types) ==
  [i \in 1..Len(types) |-> AnalysisTrade(StatName(i), Republican, StatName(i), NoTicker, types[i])]

StatInputs ==
  {[trades |-> StatTrades(types), limit |-> 0] : types \in SeqsUpTo(StatTypes, MaxStatTrades)}

\* per issuer: how many buys, sells and other trades the set holds
MomentumRows ==
  {r \in [issuer : {<<"A">>, <<"B">>}, buys : 0..MaxBuys, sells : 0..MaxSells, others : 0..1] :
     r.buys + r.sells + r.others > 0}

MomentumRowTrades(r) ==
  Repeat(AnalysisTrade(<<"P">>, Democrat, r.issuer, NoTicker, TypeBuy), r.buys)
  \o Repeat(AnalysisTrade(<<"P">>, Democrat, r.issuer, NoTicker, TypeSell), r.sells)
  \o Repeat(AnalysisTrade(<<"P">>, Democrat, r.issuer, NoTicker, TypeGift), r.others)

\* every table of at most two issuers, in either order
Tables(rows) ==
  {<<>>} \cup {<<r>> : r \in rows}
  \cup {t \in {<<r1, r2>> : r1 \in rows, r2 \in rows} : t[1].issuer # t[2].issuer}

MomentumInputs ==
  {[trades |-> Concat([i \in 1..Len(t) |-> MomentumRowTrades(t[i])]), limit |-> l] :
     t \in Tables(MomentumRows), l \in 0..MaxAnalysisLimit}

\* per issuer: the buys of each party, whether the party also sold once, and
\* whether a member of neither party bought as well
PartyRows(issuer) ==
  {r \in [issuer : {issuer}, demBuys : 0..MaxPartyBuys, demSold : BOOLEAN,
          repBuys : 0..MaxPartyBuys, repSold : BOOLEAN, others : BOOLEAN] :
     r.demBuys + r.repBuys > 0 \/ r.demSold \/ r.repSold \/ r.others}

Once(flag) == IF flag THEN 1 ELSE 0

PartyRowTrades(r) ==
  Repeat(AnalysisTrade(<<"P">>, Democrat, r.issuer, NoTicker, TypeBuy), r.demBuys)
  \o Repeat(AnalysisTrade(<<"Q">>, Republican, r.issuer, NoTicker, TypeBuy), r.repBuys)
  \o Repeat(AnalysisTrade(<<"P">>, Democrat, r.issuer, NoTicker, TypeSell), Once(r.demSold))
  \o Repeat(AnalysisTrade(<<"Q">>, Republican, r.issuer, NoTicker, TypeSell), Once(r.repSold))
  \o Repeat(AnalysisTrade(<<"R">>, OtherParty, r.issuer, NoTicker, TypeBuy), Once(r.others))

\* no issuer, issuer A alone, or A followed by a B traded by the two parties
PartyTables ==
  {<<>>} \cup {<<r>> : r \in PartyRows(<<"A">>)}
  \cup {<<r1, r2>> : r1 \in PartyRows(<<"A">>), r2 \in {r \in PartyRows(<<"B">>) : ~r.others}}

PartyInputs ==
  {[trades |-> Concat([i \in 1..Len(t) |-> PartyRowTrades(t[i])]), limit |-> l] :
     t \in PartyTables, l \in 0..MaxPartyLimit}

\* ------------------------------------------------------ specifications
InitAnalysis ==
  /\ ain = [trades |-> <<>>, limit |-> 0]
  /\ aout = NoAnalysis

InitScrape ==
  /\ spc = "idle"
  /\ url = [path |-> "/trades", params |-> <<>>]
  /\ limit = 0
  /\ page = 1
  /\ allTrades = <<>>
  /\ fetched = <<>>
  /\ pageLog = <<>>
  /\ pauses = 0
  /\ sres = NoResult

InitExtract ==
  /\ xin = [kind |-> "issuer", query |-> <<"a">>, resp |-> [ok |-> TRUE, links |-> <<>>, cause |-> ""]]
  /\ xout = NoExtraction

InitParse ==
  /\ prows = <<>>
  /\ pout = NoOutput
  /\ InitExtract
  /\ InitAnalysis

InitResolve ==
  /\ idCache = <<>>
  /\ now = 0
  /\ rpc = [p \in Procs |-> "idle"]
  /\ rreq = [p \in Procs |-> NoRequest]
  /\ rres = [p \in Procs |-> NoResolution]
  /\ lastFetched = <<>>

InitTool ==
  /\ hpc = "idle"
  /\ hreq = NoToolRequest
  /\ hparams = <<>>
  /\ hresp = NoResponse
  /\ hnet = 0

Init == InitParse /\ InitScrape /\ InitResolve /\ InitTool

\* every page of at most MaxRows rows
InitParseInputs ==
  /\ prows \in SeqsUpTo(Rows, MaxRows)
  /\ pout = NoOutput
  /\ InitExtract
  /\ InitAnalysis
  /\ InitScrape
  /\ InitResolve
  /\ InitTool

NextParse == ParseCall

\* the parser applied to every page of at most MaxRows rows
SpecParse == InitParseInputs /\ [][NextParse]_vars

\* every kind, query and search page of at most MaxLinks links
InitExtractInputs ==
  /\ xin \in [kind : Kinds, query : Queries, resp : ExtractResponses]
  /\ xout = NoExtraction
  /\ prows = <<>>
  /\ pout = NoOutput
  /\ InitAnalysis
  /\ InitScrape
  /\ InitResolve
  /\ InitTool

NextExtract == ExtractCall

\* the resolver's extraction applied to every kind, query and search page
SpecExtract == InitExtractInputs /\ [][NextExtract]_vars

\* every other component at rest, the analyses given the input `inputs`
InitAnalysisInputs(inputs) ==
  /\ ain \in inputs
  /\ aout = NoAnalysis
  /\ prows = <<>>
  /\ pout = NoOutput
  /\ InitExtract
  /\ InitScrape
  /\ InitResolve
  /\ InitTool

InitTop == InitAnalysisInputs(TopInputs)

NextTop == TopTradedCall

\* getTopTradedStocks applied to every trade set of TopInputs
SpecTop == InitTop /\ [][NextTop]_vars

InitStats == InitAnalysisInputs(StatInputs)

NextStats == PoliticianStatsCall \/ AssetStatsCall

\* getPoliticianStats and getAssetStats applied to every trade set of StatInputs
SpecStats == InitStats /\ [][NextStats]_vars

InitMomentum == InitAnalysisInputs(MomentumInputs)

NextMomentum == BuyMomentumCall

\* getBuyMomentumAssets applied to every trade set of MomentumInputs
SpecMomentum == InitMomentum /\ [][NextMomentum]_vars

InitParty == InitAnalysisInputs(PartyInputs)

NextParty == PartyMomentumCall

\* getPartyBuyMomentum applied to every trade set of PartyInputs
SpecParty == InitParty /\ [][NextParty]_vars


NextScrape ==
  \/ \E u \in Urls, l \in 0..MaxLimit : ScrapeCall(u, l)
  \/ \E resp \in PageResponses(PageRowKinds, MaxPageRows) : ScrapeFetch(resp)
  \/ ScrapePause

\* direct calls of scrapePoliticianTrades
SpecScrape == Init /\ [][NextScrape]_vars

\* rows that each parse to a trade: two different records
PagingRowKinds == {r \in PageRowKinds : ~r.throws /\ r.politicianName # <<>>}

NextPaging ==
  \/ \E u \in PagingUrls, l \in (-1)..MaxLimit : ScrapeCall(u, l)
  \/ \E resp \in PageResponses(PagingRowKinds, MaxPageRows) : ScrapeFetch(resp)
  \/ ScrapePause

\* direct calls of scrapePoliticianTrades with any listing URL and any limit
SpecPaging == Init /\ [][NextPaging]_vars

\* every page request settles and every timer fires
SpecPagingFair ==
  /\ SpecPaging
  /\ WF_vars(\E resp \in PageResponses(PagingRowKinds, MaxPageRows) : ScrapeFetch(resp))
  /\ WF_vars(ScrapePause)

NextResolve ==
  \/ \E k \in Kinds, q \in Queries : ResolveCall("req1", k, q)
  \/ \E resp \in SearchResponses(MaxCacheLinks) : ResolveFetch("req1", resp)
  \/ \E t \in ClockValues : Tick(t)

\* calls of getIssuerId and getPoliticianId, one after the other, as time passes
SpecResolve == Init /\ [][NextResolve]_vars

\* two queries that differ only in case
RaceQueries == {<<"A">>, <<"a">>}

NextRace ==
  \/ \E p \in Procs, k \in Kinds, q \in RaceQueries : ResolveCall(p, k, q)
  \/ \E p \in Procs, resp \in SearchResponses(MaxCacheLinks) : ResolveFetch(p, resp)

\* two requests resolving identifiers at once, within one lifetime of a
\* cache entry: each call runs up to its await, and the awaited fetches
\* settle in any order
SpecRace == Init /\ [][NextRace]_vars

\* search pages of one link: an issuer, another issuer, a politician; and a
\* failed search
SharedResponses ==
  {r \in SearchResponses(1) :
     IF r.ok THEN r.links \in {<<<<Site, "issuers/", "x">>>>,
                               <<<<Site, "issuers/", "y", "?", "q">>>>,
                               <<<<Site, "politicians/", "P">>>>}
     ELSE r.cause = "Network Error"}

NextShared ==
  \/ \E p \in Procs, k \in Kinds, q \in RaceQueries : ResolveCall(p, k, q)
  \/ \E p \in Procs, resp \in SharedResponses : ResolveFetch(p, resp)
  \/ \E t \in ClockValues : Tick(t)

\* two requests resolving identifiers, at once or one after the other, as
\* time passes
SpecShared == Init /\ [][NextShared]_vars

NextTool ==
  \/ \E req \in ToolRequests : ToolCall(req)
  \/ \E resp \in SearchResponses(MaxLinks) : ToolResolveFetch(resp)
  \/ ToolAfterResolve
  \/ \E resp \in PageResponses(ToolRowKinds, MaxToolRows) : ToolScrapeFetch(resp)
  \/ ToolScrapePause
  \/ ToolAfterScrape
  \/ ToolReturn

\* tool calls handled one after the other
SpecTool == Init /\ [][NextTool]_vars

\* every request that is in flight settles, every timer fires, and every
\* continuation of a settled await runs
SpecToolFair ==
  /\ SpecTool
  /\ WF_vars(\E resp \in SearchResponses(MaxLinks) : ToolResolveFetch(resp))
  /\ WF_vars(ToolAfterResolve)
  /\ WF_vars(\E resp \in PageResponses(ToolRowKinds, MaxToolRows) : ToolScrapeFetch(resp))
  /\ WF_vars(ToolScrapePause)
  /\ WF_vars(ToolAfterScrape)

\* -------------------------------------------------- claims: the parser
\* a cell text that trim reduces to the empty string
OnlySpaces(raw) == \A k \in 1..Len(raw) : raw[k] = " "

\* all three cells the filter reads are empty after trimming
AllCellsEmpty(row) ==
  OnlySpaces(row.politicianName) /\ OnlySpaces(row.issuerName) /\ OnlySpaces(row.txType)

\* row number i (1-based) is in the page's result
InResult(i) == \E j \in 1..Len(pout.trades) : pout.trades[j].index = i

\* C7: a row whose fields were extracted is in the page's result if and
\* only if at least one of its politician name, issuer name and
\* transaction type is non-empty; nothing else excludes such a row.
C7_BlankRowFilter ==
  pout.called =>
    \A i \in 1..Len(prows) :
      ~prows[i].throws => (InResult(i) <=> ~AllCellsEmpty(prows[i]))

\* a row kept for its transaction type alone, beside a dropped blank row
C7_Witness ==
  /\ pout.called
  /\ \E i \in 1..Len(prows) :
       /\ ~prows[i].throws /\ InResult(i)
       /\ OnlySpaces(prows[i].politicianName) /\ OnlySpaces(prows[i].issuerName)
  /\ \E i \in 1..Len(prows) :
       ~prows[i].throws /\ prows[i].politicianName = <<" ">> /\ ~InResult(i)

\* C8: a row whose extraction raises is skipped and the page still
\* succeeds: the result holds, in row order, exactly the other rows that
\* pass the blank-row filter, each with its trimmed fields.
C8_RowErrorSkipsRow ==
  pout.called =>
    /\ pout.ok
    /\ \A i \in 1..Len(prows) :
         InResult(i) <=> (~prows[i].throws /\ ~AllCellsEmpty(prows[i]))
    /\ \A j \in 1..Len(pout.trades) :
         /\ \A k \in 1..Len(pout.trades) : j < k => pout.trades[j].index < pout.trades[k].index
         /\ pout.trades[j].index \in 1..Len(prows)
         /\ pout.trades[j].politician = Trim(prows[pout.trades[j].index].politicianName)
         /\ pout.trades[j].txType = Trim(prows[pout.trades[j].index].txType)

\* a raising row followed by a row that is kept
C8_Witness ==
  /\ pout.called
  /\ pout.ok
  /\ \E i \in 1..Len(prows) : \E j \in 1..Len(prows) :
       i < j /\ prows[i].throws /\ InResult(j)

\* ------------------------------------------------ claims: the resolver
\* request p's call begins in this step
CallBegins(p) ==
  /\ rpc[p] \in {"idle", "done"}
  /\ rreq'[p].at = now
  /\ (rpc'[p] # rpc[p] \/ rres'[p] # rres[p] \/ rreq'[p] # rreq[p])

\* C5: a resolution that begins less than 10 minutes after the last
\* successful fetch for its kind and lowercased query returns that
\* identifier without a fetch; one that begins 10 minutes after it or later
\* issues a fresh fetch.
C5_CacheLifetime ==
  [][\A p \in Procs :
       CallBegins(p) =>
         LET key == CacheKey(rreq'[p].kind, rreq'[p].query)
         IN  key \in DOMAIN lastFetched =>
               IF now < lastFetched[key].timestamp + CACHE_TTL
               THEN /\ rpc'[p] = "done"
                    /\ rres'[p].kind = "returned"
                    /\ rres'[p].id = lastFetched[key].id
                    /\ ~rres'[p].fetched
               ELSE rpc'[p] = "fetching"]_vars

\* a call exactly 10 minutes after the entry was stored goes to the network
C5_Witness ==
  \E p \in Procs :
    /\ rpc[p] = "fetching"
    /\ CacheKey(rreq[p].kind, rreq[p].query) \in DOMAIN lastFetched
    /\ rreq[p].at - lastFetched[CacheKey(rreq[p].kind, rreq[p].query)].timestamp = CACHE_TTL

\* the links of the page whose target contains the kind's marker
MatchingLinks(links, kind) ==
  {i \in 1..Len(links) : \E j \in 1..Len(links[i]) : links[i][j] = Marker(kind)}

FirstMatching(links, kind) ==
  CHOOSE i \in MatchingLinks(links, kind) : \A k \in MatchingLinks(links, kind) : i <= k

\* the text that follows the first marker of href, up to the next marker,
\* "?" or "#", holds nothing but spaces
EmptyIdentifier(href, kind) ==
  LET m == CHOOSE j \in 1..Len(href) :
             href[j] = Marker(kind) /\ \A k \in 1..(j - 1) : href[k] # Marker(kind)
      stops == {j \in (m + 1)..Len(href) : href[j] \in {Marker(kind), "?", "#"}}
      end == IF stops = {} THEN Len(href) + 1
             ELSE CHOOSE j \in stops : \A k \in stops : j <= k
  IN  \A j \in (m + 1)..(end - 1) : href[j] = " "

NotFoundCase ==
  /\ xin.resp.ok
  /\ \/ MatchingLinks(xin.resp.links, xin.kind) = {}
     \/ EmptyIdentifier(xin.resp.links[FirstMatching(xin.resp.links, xin.kind)], xin.kind)

\* C6: when no link of the search page contains the kind's marker, or the
\* identifier of the first matching link is empty after stripping, the
\* resolution fails with a message that quotes the query as the caller gave
\* it, and returns no identifier.
C6_NotFoundNamesQuery ==
  (xout.called /\ NotFoundCase) =>
    /\ ~xout.ok
    /\ xout.id = <<>>
    /\ xout.error[1] = WithArg(IdErrorPrefix(xin.kind), xin.query)

\* an upper-case query whose first matching link has only a query string
C6_Witness ==
  /\ xout.called
  /\ ~xout.ok
  /\ xin.query = <<"A">>
  /\ MatchingLinks(xin.resp.links, xin.kind) # {}
  /\ NotFoundCase

\* ------------------------------------------------ claims: the paginator
\* the trades of the first k logged pages, in page order then row order
RECURSIVE ConcatPages(_, _)
ConcatPages(log, k) ==
  IF k = 0 THEN <<>> ELSE ConcatPages(log, k - 1) \o log[k].trades

TakeFirst(s, n) == SubSeq(s, 1, IF Len(s) < n THEN Len(s) ELSE n)

Reindexed(s) == [i \in 1..Len(s) |-> [s[i] EXCEPT !.index = i]]

\* what pages 1..k of the log accumulate to under the current limit
AccumulatedFrom(k) == Reindexed(TakeFirst(ConcatPages(pageLog, k), limit))

ScrapeReturned == spc = "done" /\ sres.kind = "returned"

\* C1: with limit >= 1 the returned list has n <= limit trades and its i-th
\* trade has index i, whatever the number of trades on each page.
C1_IndexesAreOneToN ==
  (ScrapeReturned /\ limit >= 1) =>
    /\ Len(sres.trades) <= limit
    /\ \A i \in 1..Len(sres.trades) : sres.trades[i].index = i

\* a two-page call cut at the limit, whose rows had other page-level indexes
C1_Witness ==
  /\ ScrapeReturned
  /\ Len(pageLog) = 2
  /\ Len(sres.trades) = limit
  /\ Len(ConcatPages(pageLog, 2)) > limit
  /\ \E i \in 1..Len(pageLog[2].trades) : pageLog[2].trades[i].index # Len(pageLog[1].trades) + i

\* C2: once a page comes back with zero trades the call is over: it returned
\* the trades accumulated from the pages before, and no page after it is
\* ever requested, also when fewer than limit trades were accumulated.
C2_StopsAtEmptyPage ==
  \A k \in 1..Len(pageLog) :
    (pageLog[k].ok /\ pageLog[k].trades = <<>>) =>
      /\ ScrapeReturned
      /\ sres.trades = AccumulatedFrom(k - 1)
      /\ Len(fetched) = k
      /\ \A i \in 1..k : fetched[i].page = i

C2_Witness ==
  /\ ScrapeReturned
  /\ Len(pageLog) >= 2
  /\ pageLog[Len(pageLog)].ok
  /\ pageLog[Len(pageLog)].trades = <<>>
  /\ Len(sres.trades) >= 1
  /\ Len(sres.trades) < limit

\* C3: when the fetch of page 1 fails the call throws: the error's message
\* ends with the cause of the failure, no trade list is returned and no
\* further page is requested.
C3_FirstPageFailureIsFatal ==
  (Len(pageLog) >= 1 /\ ~pageLog[1].ok) =>
    /\ spc = "done"
    /\ sres.kind = "threw"
    /\ sres.trades = <<>>
    /\ sres.error[1] = Lit("Failed to scrape politician trades: ")
    /\ sres.error[Len(sres.error)] = Lit(pageLog[1].cause)
    /\ Len(fetched) = 1

C3_Witness == spc = "done" /\ sres.kind = "threw" /\ Len(pageLog) = 1 /\ pageLog[1].cause \in Causes

\* C4: when the fetch of page k >= 2 fails the call does not throw: it
\* returns the trades accumulated from pages 1..k-1, indexed 1..n, and
\* requests no page after k.
C4_LaterPageFailureEndsResults ==
  \A k \in 2..Len(pageLog) :
    ~pageLog[k].ok =>
      /\ ScrapeReturned
      /\ sres.trades = AccumulatedFrom(k - 1)
      /\ Len(sres.trades) >= 1
      /\ \A i \in 1..Len(sres.trades) : sres.trades[i].index = i
      /\ Len(fetched) = k

C4_Witness ==
  /\ ScrapeReturned
  /\ Len(pageLog) = 3
  /\ ~pageLog[3].ok
  /\ Len(sres.trades) = 2

\* ------------------------------------------- claims: the tool-call handler
LimitTools == {"get_top_traded_assets", "get_buy_momentum_assets", "get_party_buy_momentum"}

LimitBound(name) == IF name = "get_party_buy_momentum" THEN 20 ELSE 50

\* the caller gave a days value outside 30, 90, 180, 365, or a limit outside
\* the tool's bound
OutOfRangeArgs(req) ==
  /\ req.hasArgs
  /\ \/ req.days.given /\ req.days.value \notin {30, 90, 180, 365}
     \/ /\ req.name \in LimitTools
        /\ req.limit.given
        /\ req.limit.value \notin 1..LimitBound(req.name)

\* C9: a call whose days value is not one of 30, 90, 180, 365, or whose
\* limit lies outside the tool's bound, is answered with a validation
\* failure and issues no HTTP request.
C9_InvalidArgsRejected ==
  (hpc # "idle" /\ OutOfRangeArgs(hreq)) =>
    /\ hpc = "done"
    /\ hresp.isError
    /\ hnet = 0

\* what the failed step of the operation threw
Underlying == IF rres[Caller].kind = "threw" THEN rres[Caller].error ELSE sres.error

C10_Safety ==
  /\ hresp.kind # "thrown"
  /\ hpc = "done" => hresp.kind \in {"result", "error"}
  /\ (hpc = "done" /\ (rres[Caller].kind = "threw" \/ sres.kind = "threw")) =>
       /\ hresp.isError
       /\ hresp.report = NoReport
       /\ hresp.text = <<Lit("Error: "), Lit(OperationErrorPrefix(hreq.name))>> \o Underlying
       /\ sres.kind = "threw" => hresp.text[Len(hresp.text)] = Lit(pageLog[1].cause)

\* C10: every tool call ends in a response and the handler never throws;
\* when identifier resolution or the first page fetch fails, the response
\* has isError set, its text is "Error: " followed by the operation's own
\* prefix and the underlying message, and it carries no report.
C10_ErrorsBecomeResponses ==
  /\ []C10_Safety
  /\ (hpc \notin {"idle", "done"}) ~> (hpc = "done")

\* a first page that fails after the identifier was resolved
C10_Witness ==
  /\ hpc = "done"
  /\ hreq.name = "get_asset_stats"
  /\ rres[Caller].kind = "returned"
  /\ sres.kind = "threw"
  /\ hresp.isError

\* ------------------------------------------------------------ analyses: claims
\* the issuers of a trade set, and how many trades of one issuer have a type
IssuersIn(trades) == {trades[i].issuer : i \in 1..Len(trades)}

TypeCount(trades, issuer, word) ==
  Cardinality({i \in 1..Len(trades) :
                 trades[i].issuer = issuer /\ ToLowerCase(trades[i].txType) = word})

BuysOf(issuer) == TypeCount(ain.trades, issuer, TypeBuy)

SellsOf(issuer) == TypeCount(ain.trades, issuer, TypeSell)

MomentumCalled == aout.called /\ aout.op = "getBuyMomentumAssets"

\* C11: every asset of the buy-momentum output has strictly more buys than
\* sells in the collected trades (so netBuys >= 1); an asset whose buys do
\* not exceed its sells never appears.
C11_OnlyNetBuyers ==
  MomentumCalled =>
    \A i \in 1..Len(aout.report.assets) :
      LET e == aout.report.assets[i]
      IN  /\ e.buys = BuysOf(e.issuer)
          /\ e.sells = SellsOf(e.issuer)
          /\ BuysOf(e.issuer) > SellsOf(e.issuer)
          /\ e.netBuys >= 1

\* a report that lists one net buyer, from a set that also holds an asset
\* with as many sells as buys, under a limit that had room for both
C11_Witness ==
  /\ MomentumCalled
  /\ ain.limit >= 2
  /\ Len(aout.report.assets) = 1
  /\ \E issuer \in IssuersIn(ain.trades) : BuysOf(issuer) = SellsOf(issuer) /\ BuysOf(issuer) > 0

\* the report of the same steps (ratio, sort, truncate, rank) with the
\* filter removed
UnfilteredRanking == MomentumRanking(AssetMap(ain.trades), ain.limit)

UnfilteredReport == MomentumReport(ain.limit, UnfilteredRanking)

HasNonNetBuyer == \E issuer \in IssuersIn(ain.trades) : BuysOf(issuer) <= SellsOf(issuer)

\* C12 as stated, for the limits the tool accepts: whenever the collected
\* trades hold an asset whose buys do not exceed its sells, the report
\* differs from the report computed without the filter.
C12_FilterAlwaysChangesReport ==
  (MomentumCalled /\ ain.limit >= 1 /\ HasNonNetBuyer) => aout.report # UnfilteredReport

\* C12 as amended: the report differs from the report computed without the
\* filter exactly when an asset whose buys do not exceed its sells is among
\* the first `limit` assets of the unfiltered order.
C12_FilterChangesReportWithinLimit ==
  MomentumCalled =>
    ((aout.report # UnfilteredReport)
       <=> \E i \in 1..Len(UnfilteredRanking) :
             UnfilteredRanking[i].buys <= UnfilteredRanking[i].sells)

\* an asset with buys = sells that the unfiltered order places first, ahead
\* of a net buyer
C12_Witness ==
  /\ MomentumCalled
  /\ Len(UnfilteredRanking) = 2
  /\ UnfilteredRanking[1].buys = UnfilteredRanking[1].sells
  /\ UnfilteredRanking[2].buys > UnfilteredRanking[2].sells
  /\ Len(aout.report.assets) = 1

StatsCalled == aout.called /\ aout.op \in {"getPoliticianStats", "getAssetStats"}

\* the type is, without regard to case, one of buy, sell, receive, exchange
Recognized(trade) ==
  ToLowerCase(trade.txType) \in {TypeBuy, TypeSell, TypeReceive, TypeExchange}

CountedTrades(stats) == stats.buys + stats.sells + stats.receives + stats.exchanges

\* C13: in both statistics, buys + sells + receives + exchanges never
\* exceeds totalTrades, and equals it exactly when every collected trade has
\* one of the four types, whatever its case.
C13_TypeCountsWithinTotal ==
  StatsCalled =>
    LET stats == aout.report.stats
    IN  /\ stats.totalTrades = Len(ain.trades)
        /\ CountedTrades(stats) <= stats.totalTrades
        /\ (CountedTrades(stats) = stats.totalTrades)
             <=> \A i \in 1..Len(ain.trades) : Recognized(ain.trades[i])

\* asset statistics over a set in which one type is capitalised and every
\* type is one of the four
C13_Witness ==
  /\ StatsCalled
  /\ aout.op = "getAssetStats"
  /\ Len(ain.trades) >= 3
  /\ \E i \in 1..Len(ain.trades) : ain.trades[i].txType = <<"B", "uy">>
  /\ \A i \in 1..Len(ain.trades) : Recognized(ain.trades[i])
  /\ CountedTrades(aout.report.stats) = Len(ain.trades)

TypeTotal(word) ==
  Cardinality({i \in 1..Len(ain.trades) : ToLowerCase(ain.trades[i].txType) = word})

Distance(a, b) == IF a >= b THEN a - b ELSE b - a

\* C14: in both statistics buySellRatio (held in hundredths) is never
\* negative; it is the number of buys when there are buys and no sells, 0
\* when there are neither, and otherwise a two-decimal value nearest to
\* buys / sells.
C14_BuySellRatio ==
  StatsCalled =>
    LET ratio == aout.report.stats.buySellRatio
        buys == TypeTotal(TypeBuy)
        sells == TypeTotal(TypeSell)
    IN  /\ ratio >= 0
        /\ (sells = 0 /\ buys > 0) => ratio = 100 * buys
        /\ (sells = 0 /\ buys = 0) => ratio = 0
        /\ sells > 0 => 2 * Distance(ratio * sells, 100 * buys) <= sells

\* two buys against three sells: 0.666... is reported as 0.67
C14_Witness ==
  /\ StatsCalled
  /\ aout.op = "getPoliticianStats"
  /\ TypeTotal(TypeBuy) = 2
  /\ TypeTotal(TypeSell) = 3
  /\ aout.report.stats.buySellRatio = 67

TopCalled == aout.called /\ aout.op = "getTopTradedStocks"

TradesOfIssuer(issuer) ==
  Cardinality({i \in 1..Len(ain.trades) : ain.trades[i].issuer = issuer})

Smaller(a, b) == IF a < b THEN a ELSE b

\* C15: the top-traded list holds one entry per issuer, each with the number
\* of collected trades of that issuer, in non-increasing order of that
\* number, and it is the first min(limit, number of issuers) of that order:
\* no issuer left out has more trades than a listed one.
C15_TopTradedRanking ==
  TopCalled =>
    LET stocks == aout.report.stocks
        listed == {stocks[i].issuer : i \in 1..Len(stocks)}
    IN  /\ Len(stocks) = Smaller(ain.limit, Cardinality(IssuersIn(ain.trades)))
        /\ listed \subseteq IssuersIn(ain.trades)
        /\ Cardinality(listed) = Len(stocks)
        /\ \A i \in 1..Len(stocks) : stocks[i].tradeCount = TradesOfIssuer(stocks[i].issuer)
        /\ \A i \in 1..(Len(stocks) - 1) : stocks[i].tradeCount >= stocks[i + 1].tradeCount
        /\ \A issuer \in IssuersIn(ain.trades) \ listed :
             \A i \in 1..Len(stocks) : TradesOfIssuer(issuer) <= stocks[i].tradeCount

\* counts A:1, B:2, C:1 collected in the order A, B, B, C give B(2), A(1), C(1)
C15_Witness ==
  /\ TopCalled
  /\ ain.limit = 3
  /\ [i \in 1..Len(ain.trades) |-> ain.trades[i].issuer] = << <<"A">>, <<"B">>, <<"B">>, <<"C">> >>
  /\ [i \in 1..Len(aout.report.stocks) |->
        <<aout.report.stocks[i].issuer, aout.report.stocks[i].tradeCount>>]
       = << << <<"B">>, 2 >>, << <<"A">>, 1 >>, << <<"C">>, 1 >> >>

\* C16: the total reported with the top-traded list is the number of
\* distinct issuers of the collected trades, whatever the limit.
C16_TotalIsDistinctIssuers ==
  (TopCalled /\ ain.limit >= 1) =>
    aout.report.totalStocks = Cardinality(IssuersIn(ain.trades))

PartyCalled == aout.called /\ aout.op = "getPartyBuyMomentum"

\* buys or sells of an issuer by members of a party, counted on the trades
PartyTypeCount(issuer, party, word) ==
  Cardinality({i \in 1..Len(ain.trades) :
                 /\ ain.trades[i].issuer = issuer
                 /\ ain.trades[i].party = party
                 /\ ToLowerCase(ain.trades[i].txType) = word})

DemNetOf(issuer) ==
  PartyTypeCount(issuer, Democrat, TypeBuy) - PartyTypeCount(issuer, Democrat, TypeSell)

RepNetOf(issuer) ==
  PartyTypeCount(issuer, Republican, TypeBuy) - PartyTypeCount(issuer, Republican, TypeSell)

DemTotalOf(issuer) ==
  PartyTypeCount(issuer, Democrat, TypeBuy) + PartyTypeCount(issuer, Democrat, TypeSell)

RepTotalOf(issuer) ==
  PartyTypeCount(issuer, Republican, TypeBuy) + PartyTypeCount(issuer, Republican, TypeSell)

ConsensusIssuers ==
  {k \in IssuersIn(ain.trades) :
     DemNetOf(k) > 0 /\ RepNetOf(k) > 0 /\ DemTotalOf(k) >= 2 /\ RepTotalOf(k) >= 2}

DemocratIssuers == {k \in IssuersIn(ain.trades) : DemNetOf(k) > 0 /\ DemTotalOf(k) >= RepTotalOf(k)}

RepublicanIssuers == {k \in IssuersIn(ain.trades) : RepNetOf(k) > 0 /\ RepTotalOf(k) >= DemTotalOf(k)}

ConsensusScore(k) == DemNetOf(k) + RepNetOf(k)

\* list is the first min(limit, |members|) of the members in non-increasing
\* order of score, ranked 1..n, each entry carrying its score
IsRankingOf(list, members, score) ==
  LET listed == {list[i].asset.issuer : i \in 1..Len(list)}
  IN  /\ Len(list) = Smaller(ain.limit, Cardinality(members))
      /\ listed \subseteq members
      /\ Cardinality(listed) = Len(list)
      /\ \A i \in 1..Len(list) :
           /\ list[i].rank = i
           /\ list[i].asset.score = score[list[i].asset.issuer]
      /\ \A i \in 1..(Len(list) - 1) : list[i].asset.score >= list[i + 1].asset.score
      /\ \A k \in members \ listed : \A i \in 1..Len(list) : score[k] <= list[i].asset.score

\* C17: the consensus list ranks exactly the issuers with demNet > 0,
\* repNet > 0, demTotal >= 2 and repTotal >= 2 by demNet + repNet, the
\* Democrat favorites those with demNet > 0 and demTotal >= repTotal by
\* demNet, the Republican favorites those with repNet > 0 and
\* repTotal >= demTotal by repNet; each list is sorted, truncated to limit
\* and ranked on its own, and an issuer meeting several conditions is in
\* each of those lists.
C17_PartyCategories ==
  PartyCalled =>
    /\ IsRankingOf(aout.report.consensus, ConsensusIssuers,
                   [k \in ConsensusIssuers |-> ConsensusScore(k)])
    /\ IsRankingOf(aout.report.democratFavorites, DemocratIssuers,
                   [k \in DemocratIssuers |-> DemNetOf(k)])
    /\ IsRankingOf(aout.report.republicanFavorites, RepublicanIssuers,
                   [k \in RepublicanIssuers |-> RepNetOf(k)])

\* an issuer bought twice by each party is listed in all three lists, and a
\* second issuer only among the Democrat favorites
C17_Witness ==
  /\ PartyCalled
  /\ ain.limit = 2
  /\ Len(aout.report.consensus) = 1
  /\ Len(aout.report.democratFavorites) = 2
  /\ Len(aout.report.republicanFavorites) = 1
  /\ aout.report.consensus[1].asset.issuer = aout.report.republicanFavorites[1].asset.issuer
  /\ \E i \in 1..2 :
       aout.report.democratFavorites[i].asset.issuer = aout.report.consensus[1].asset.issuer

\* ------------------------------------------------------------ tool calls: claims
\* a get_politician_trades call has built its trade-listing URL
ListingBuilt == hreq.name = "get_politician_trades" /\ hpc \in {"scraping", "done"} /\ spc # "idle"

ListingReported == ListingBuilt /\ hpc = "done" /\ hresp.kind = "result"

\* the type argument is empty or names all four types
MeansAllTypes(type) == Elements(type) = {} \/ Elements(type) = Elements(AllowedTypes)

TxTypeParams == SelectSeq(url.params, LAMBDA p : p.name = "txType")

\* the requested types, lowercased and comma-joined
JoinedTypes(type) ==
  [i \in 1..(2 * Len(type) - 1) |-> IF i % 2 = 1 THEN LowerWord(type[(i + 1) \div 2]) ELSE ","]

\* C18: when the type argument of get_politician_trades is empty or names
\* all four of BUY, SELL, RECEIVE, EXCHANGE, the trade-listing URL has no
\* txType parameter and the report's filters.type is "ALL"; for every other
\* accepted type argument the URL has txType with the requested types,
\* lowercased and comma-joined, and filters.type is the requested array.
C18_TypeFilter ==
  ListingBuilt =>
    IF MeansAllTypes(hreq.type.value)
    THEN /\ TxTypeParams = <<>>
         /\ ListingReported => hresp.report.filters.type.all
    ELSE /\ TxTypeParams = <<Param("txType", JoinedTypes(hreq.type.value))>>
         /\ ListingReported =>
              hresp.report.filters.type = [all |-> FALSE, types |-> hreq.type.value]

\* ------------------------------------------------ claims: concurrent resolutions
\* the kind and lowercased query of request p's resolution
OwnKey(p) == [kind |-> rreq[p].kind, query |-> ToLowerCase(rreq[p].query)]

\* request p's resolution ends in this step by its fetch, or by a cache hit
SettlesByFetch(p) == rpc[p] = "fetching" /\ rpc'[p] = "done"

ReturnsFromCache(p) ==
  CallBegins(p) /\ rpc'[p] = "done" /\ rres'[p].kind = "returned" /\ ~rres'[p].fetched

\* the cache after the step differs from the cache before it only in the
\* entry of key, which now holds id
OnlyInserts(key, id) ==
  /\ DOMAIN idCache' = DOMAIN idCache \cup {key}
  /\ idCache'[key].id = id
  /\ \A k \in DOMAIN idCache \ {key} : idCache'[k] = idCache[k]

C19_Step ==
  /\ idCache' # idCache =>
       \E p \in Procs : SettlesByFetch(p) /\ rres'[p].kind = "returned"
  /\ \A p \in Procs :
       /\ (SettlesByFetch(p) /\ rres'[p].kind = "returned") =>
            (rres'[p].fetched /\ rres'[p].id # <<>> /\ OnlyInserts(OwnKey(p), rres'[p].id))
       /\ (SettlesByFetch(p) /\ rres'[p].kind = "threw") => idCache' = idCache
       /\ ReturnsFromCache(p) =>
            /\ idCache' = idCache
            /\ OwnKey(p)' \in DOMAIN idCache
            /\ rres'[p].id = idCache[OwnKey(p)'].id

C19_State ==
  /\ \A key \in DOMAIN idCache : key.kind \in Kinds /\ idCache[key].id # <<>>
  /\ \A p \in Procs : rres[p].kind = "threw" => rres[p].fetched
  /\ \A p, q \in Procs :
       (/\ p # q
        /\ OwnKey(p) = OwnKey(q)
        /\ rres[p].kind = "returned" /\ rres[p].fetched
        /\ rres[q].kind = "returned" /\ rres[q].fetched)
       => /\ OwnKey(p) \in DOMAIN idCache
          /\ idCache[OwnKey(p)].id \in {rres[p].id, rres[q].id}

\* C19: however the resolutions of two requests interleave, the cache
\* changes only when a fetch succeeds, and then only in the entry of the
\* fetching call's own kind and lowercased query, which receives the
\* identifier that call returns; a cache hit returns the identifier stored
\* under the call's own key; a resolution fails only through its own
\* fetch; and two resolutions that raced on one key both return and leave
\* one of their identifiers in the cache.
C19_CacheNeverCorrupted == []C19_State /\ [][C19_Step]_vars

\* both requests missed the cache for the same key, written in different
\* case, and their fetches came back with different identifiers
C19_Witness ==
  /\ rreq["req1"].query = <<"A">>
  /\ rreq["req2"].query = <<"a">>
  /\ OwnKey("req1") = OwnKey("req2")
  /\ rres["req1"].kind = "returned" /\ rres["req1"].fetched
  /\ rres["req2"].kind = "returned" /\ rres["req2"].fetched
  /\ rres["req1"].id # rres["req2"].id
  /\ idCache[OwnKey("req1")].id = rres["req1"].id

\* ------------------------------------------------ claims: buy momentum order
\* the issuers the filter keeps
NetBuyers == {k \in IssuersIn(ain.trades) : BuysOf(k) > SellsOf(k)}

\* buys/sells, or buys when there are no sells, compared as fractions:
\* the ratio of a exceeds, or equals, that of b
RatioDen(sells) == IF sells > 0 THEN sells ELSE 1

RatioAbove(buysA, sellsA, buysB, sellsB) ==
  buysA * RatioDen(sellsB) > buysB * RatioDen(sellsA)

RatioSame(buysA, sellsA, buysB, sellsB) ==
  buysA * RatioDen(sellsB) = buysB * RatioDen(sellsA)

\* a comes no later than b in the order: higher ratio, or the same ratio
\* and at least as many buys
NoLater(buysA, sellsA, buysB, sellsB) ==
  \/ RatioAbove(buysA, sellsA, buysB, sellsB)
  \/ RatioSame(buysA, sellsA, buysB, sellsB) /\ buysA >= buysB

\* C20: the buy-momentum list is in non-increasing order of ratio, equal
\* ratios in non-increasing order of buys; it is the first
\* min(limit, number of net buyers) of that order; ranks are 1..n, assigned
\* after truncation; netBuys is buys - sells and the reported ratio is the
\* two-decimal value of buys/sells (buys when sells = 0), so that buys 6 and
\* sells 2 give 3.00 and netBuys 4.
C20_MomentumOrder ==
  MomentumCalled =>
    LET assets == aout.report.assets
        listed == {assets[i].issuer : i \in 1..Len(assets)}
    IN  /\ Len(assets) = Smaller(ain.limit, Cardinality(NetBuyers))
        /\ listed \subseteq NetBuyers
        /\ Cardinality(listed) = Len(assets)
        /\ \A i \in 1..Len(assets) :
             /\ assets[i].rank = i
             /\ assets[i].buys = BuysOf(assets[i].issuer)
             /\ assets[i].sells = SellsOf(assets[i].issuer)
             /\ assets[i].netBuys = assets[i].buys - assets[i].sells
             /\ 2 * Distance(assets[i].buySellRatio * RatioDen(assets[i].sells), 100 * assets[i].buys)
                  <= RatioDen(assets[i].sells)
             /\ (assets[i].buys = 6 /\ assets[i].sells = 2) =>
                  (assets[i].buySellRatio = 300 /\ assets[i].netBuys = 4)
        /\ \A i \in 1..(Len(assets) - 1) :
             NoLater(assets[i].buys, assets[i].sells, assets[i + 1].buys, assets[i + 1].sells)
        /\ \A k \in NetBuyers \ listed : \A i \in 1..Len(assets) :
             NoLater(assets[i].buys, assets[i].sells, BuysOf(k), SellsOf(k))

\* two net buyers of ratio 2, collected in the order 2 buys, then 4 buys
\* against 2 sells: the one with 4 buys is ranked first
C20_Witness ==
  /\ MomentumCalled
  /\ Len(ain.trades) > 0
  /\ BuysOf(ain.trades[1].issuer) = 2
  /\ SellsOf(ain.trades[1].issuer) = 0
  /\ Len(aout.report.assets) = 2
  /\ aout.report.assets[1].buys = 4
  /\ aout.report.assets[1].sells = 2
  /\ aout.report.assets[1].buySellRatio = 200
  /\ aout.report.assets[2].issuer = ain.trades[1].issuer

\* ------------------------------------------- claims: the page requests
\* the query parameters of the input other than page, in their order
OtherParams(u) == SelectSeq(u.params, LAMBDA q : q.name # "page")

\* the number of page parameters in the query string of a requested URL
PageParams(req) ==
  Len(SelectSeq(req.base.params, LAMBDA q : q.name = "page")) + (IF req.inQuery THEN 1 ELSE 0)

\* C21: for every input URL, the URL requested for page p has page as a
\* query parameter exactly once, with value p, and keeps every other query
\* parameter of the input.
C21_PageParameterOnce ==
  \A p \in 1..Len(fetched) :
    /\ fetched[p].page = p
    /\ PageParams(fetched[p]) = 1
    /\ fetched[p].base.path = url.path
    /\ fetched[p].base.params = OtherParams(url)

\* the page requests that have not come back yet
InFlight == Len(fetched) - Len(pageLog)

\* in every state: at most one request is in flight, and exactly while the
\* call waits for it; the pages requested so far are 1, 2, 3, ... in that
\* order; one pause has been taken between each two successive requests,
\* and none after the last one
C22_State ==
  /\ InFlight \in {0, 1}
  /\ InFlight = 1 <=> spc = "fetching"
  /\ \A i \in 1..Len(fetched) : fetched[i].page = i
  /\ spc \in {"fetching", "done"} => pauses = (IF fetched = <<>> THEN 0 ELSE Len(fetched) - 1)
  /\ spc = "pausing" => (pauses = Len(fetched) - 1 /\ page = Len(fetched) + 1)

\* in every step: a pause begins only when a page fetch completes, and a
\* page other than page 1 is requested only when a pause ends
C22_Step ==
  /\ spc = "fetching" => (spc' # "fetching" /\ Len(pageLog') = Len(pageLog) + 1)
  /\ spc' = "pausing" => spc = "fetching"
  /\ spc = "pausing" =>
       /\ spc' = "fetching"
       /\ pauses' = pauses + 1
       /\ Len(fetched') = Len(fetched) + 1
       /\ fetched'[Len(fetched')].page = Len(fetched) + 1
  /\ (spc' = "fetching" /\ spc # "pausing") => (Len(fetched') = 1 /\ pauses' = 0)

\* C22: within one call the page fetches are sequential and throttled: at
\* most one is in flight, pages are requested in the order 1, 2, 3, ...
\* without gap or repeat, a pause separates the completion of one fetch
\* from the start of the next, and no pause follows the last fetched page.
C22_SequentialThrottled == []C22_State /\ [][C22_Step]_vars

\* a call that ended after three page fetches with two pauses between them
C22_Witness ==
  /\ spc = "done"
  /\ Len(fetched) = 3
  /\ Len(pageLog) = 3
  /\ pauses = 2

\* ------------------------------------- claims: the extracted identifier
\* the position of the first marker of the kind in href
MarkerAt(href, kind) ==
  CHOOSE j \in 1..Len(href) : href[j] = Marker(kind) /\ \A k \in 1..(j - 1) : href[k] # Marker(kind)

\* the path segment that follows the first marker of href: the text up to
\* the next "/", "?" or "#"
SegmentAfterMarker(href, kind) ==
  LET m == MarkerAt(href, kind)
      stops == {j \in (m + 1)..Len(href) : href[j] \in {"/", "?", "#", Marker(kind)}}
      end == IF stops = {} THEN Len(href) + 1
             ELSE CHOOSE j \in stops : \A k \in stops : j <= k
  IN  SubSeq(href, m + 1, end - 1)

\* C23: a returned identifier is the single path segment that follows the
\* kind marker in the first matching link: it is non-empty and holds no
\* "/", "?" or "#".
C23_IdIsOnePathSegment ==
  (xout.called /\ xout.ok) =>
    LET href == xin.resp.links[FirstMatching(xin.resp.links, xin.kind)]
    IN  /\ xout.id # <<>>
        /\ \A j \in 1..Len(xout.id) : xout.id[j] \notin {"/", "?", "#"}
        /\ xout.id = SegmentAfterMarker(href, xin.kind)

\* ---------------------------------------- claims: the key of the cache
\* two texts that differ at most in the case of their letters
SameIgnoringCase(a, b) ==
  /\ Len(a) = Len(b)
  /\ \A i \in 1..Len(a) : a[i] = b[i] \/ {a[i], b[i]} \in {{"A", "a"}, {"B", "b"}}

\* the cache entries of a kind whose query is the given text in any case
EntriesFor(kind, query) ==
  {k \in DOMAIN idCache : k.kind = kind /\ SameIgnoringCase(k.query, query)}

\* the cache holds at most one entry per kind and query, whatever the case
C24_State ==
  \A k1, k2 \in DOMAIN idCache :
    (k1.kind = k2.kind /\ SameIgnoringCase(k1.query, k2.query)) => k1 = k2

\* a call returns without a fetch exactly when the cache holds an entry of
\* its own kind, for its query in any case, younger than 10 minutes, and it
\* returns that entry's identifier; a successful fetch stores its
\* identifier in the entry of the call's kind and query and in no other
C24_Step ==
  \A p \in Procs :
    /\ CallBegins(p) =>
         LET fresh == {k \in EntriesFor(rreq'[p].kind, rreq'[p].query) :
                         now - idCache[k].timestamp < CACHE_TTL}
         IN  IF fresh # {}
             THEN /\ rpc'[p] = "done"
                  /\ rres'[p].kind = "returned"
                  /\ ~rres'[p].fetched
                  /\ \A k \in fresh : rres'[p].id = idCache[k].id
             ELSE rpc'[p] = "fetching"
    /\ (SettlesByFetch(p) /\ rres'[p].kind = "returned") =>
         \E k \in DOMAIN idCache' :
           /\ k.kind = rreq[p].kind
           /\ SameIgnoringCase(k.query, rreq[p].query)
           /\ idCache'[k] = [id |-> rres'[p].id, timestamp |-> now]
           /\ \A other \in DOMAIN idCache' \ {k} :
                other \in DOMAIN idCache /\ idCache'[other] = idCache[other]

\* C24: the cache is keyed by kind and lowercased query: resolutions of one
\* kind whose queries differ only in case share one entry, so the later one
\* within 10 minutes returns the same identifier with no fetch, and an
\* entry of one kind is never returned for the other kind.
C24_KeyedByKindAndLowercase == []C24_State /\ [][C24_Step]_vars

\* a fetch for issuer "a", then within the lifetime a hit for issuer "A"
\* with the same identifier, while the cache holds another identifier for
\* politician "a"
C24_Witness ==
  /\ rreq["req2"].kind = "issuer" /\ rreq["req2"].query = <<"a">>
  /\ rres["req2"].kind = "returned" /\ rres["req2"].fetched
  /\ rreq["req1"].kind = "issuer" /\ rreq["req1"].query = <<"A">>
  /\ rpc["req1"] = "done" /\ rres["req1"].kind = "returned" /\ ~rres["req1"].fetched
  /\ rreq["req1"].at > rreq["req2"].at
  /\ rres["req1"].id = rres["req2"].id
  /\ \E k \in DOMAIN idCache :
       k.kind = "politician" /\ k.query = <<"a">> /\ idCache[k].id # rres["req1"].id

\* ------------------------------------ claims: the lifetime of an entry
\* the entry of key is in the cache and 10 minutes old or older
IsStale(key) == key \in DOMAIN idCache /\ now - idCache[key].timestamp >= CACHE_TTL

\* in every step: no key leaves the cache; a cache hit is served from an
\* entry created less than 10 minutes before and leaves the whole cache as
\* it was; a call that finds its entry stale leaves it in the cache and
\* goes to the network; an entry changes only when a fetch for its own key
\* succeeds, which stamps it with the time of that fetch; the passing of
\* time changes no entry
C25_Step ==
  /\ DOMAIN idCache \subseteq DOMAIN idCache'
  /\ now' # now => idCache' = idCache
  /\ \A p \in Procs :
       /\ ReturnsFromCache(p) =>
            /\ idCache' = idCache
            /\ now - idCache[OwnKey(p)'].timestamp < CACHE_TTL
       /\ (CallBegins(p) /\ IsStale(OwnKey(p)')) =>
            /\ idCache' = idCache
            /\ rpc'[p] = "fetching"
  /\ \A key \in DOMAIN idCache :
       idCache'[key] # idCache[key] =>
         \E p \in Procs :
           /\ SettlesByFetch(p)
           /\ rres'[p].kind = "returned"
           /\ OwnKey(p) = key
           /\ idCache'[key] = [id |-> rres'[p].id, timestamp |-> now]

\* C25: an entry lives 10 minutes from its creation, not from its last
\* use, and is never evicted: a hit leaves the cache unchanged, a stale
\* entry stays in the map and is only ignored on read until a successful
\* re-resolution of its key overwrites it, and the set of keys never
\* shrinks.
C25_LazyExpiry == [][C25_Step]_vars

\* one request was served from an entry created before its call, whose
\* timestamp is still that of the creation, while the other request found
\* its entry stale, still in the map, and is fetching
C25_Witness ==
  /\ rpc["req1"] = "done" /\ rres["req1"].kind = "returned" /\ ~rres["req1"].fetched
  /\ OwnKey("req1") \in DOMAIN idCache
  /\ idCache[OwnKey("req1")].timestamp < rreq["req1"].at
  /\ rpc["req2"] = "fetching"
  /\ IsStale(OwnKey("req2"))
  /\ rreq["req2"].at = now

\* ------------------------------------------ claims: the accumulation
\* a trade without its index
Record(trade) == [politician |-> trade.politician, issuer |-> trade.issuer, txType |-> trade.txType]

\* the logged page that the i-th accumulated trade came from
PageOf(i) == CHOOSE k \in 1..Len(pageLog) :
               Len(ConcatPages(pageLog, k - 1)) < i /\ i <= Len(ConcatPages(pageLog, k))

\* C26: a record that two fetched pages both returned appears only once in
\* the returned list.
C26_NoRecordTwice ==
  ScrapeReturned =>
    \A i, j \in 1..Len(sres.trades) :
      (i < j /\ PageOf(i) # PageOf(j)) => Record(sres.trades[i]) # Record(sres.trades[j])

\* ------------------------------------------- claims: the end of a call
ScrapeRunning == spc \in {"fetching", "pausing"}

\* with limit >= 1 no more than limit pages are ever requested, because
\* every page that lets the loop go on has added a trade; with limit <= 0
\* the call is over at once, with an empty list and no request
C27_State ==
  /\ limit >= 1 => Len(fetched) <= limit
  /\ ScrapeRunning => (Len(allTrades) >= Len(pageLog) /\ Len(allTrades) < limit)
  /\ (limit <= 0 /\ spc # "idle") =>
       (spc = "done" /\ fetched = <<>> /\ sres = Returned(<<>>))

\* C27: a call with limit L >= 1 ends after at most L page fetches,
\* whatever the source returns, provided each fetch returns or fails; a
\* call with L <= 0 returns the empty list without any fetch.
C27_Terminates == []C27_State /\ (ScrapeRunning ~> spc = "done")

\* a call that needed limit page fetches, every page holding one trade
C27_Witness ==
  /\ ScrapeReturned
  /\ limit = 3
  /\ Len(fetched) = limit
  /\ Len(sres.trades) = limit

\* every trade the fetched pages produced, in page order then row order
AllFetchedTrades == ConcatPages(pageLog, Len(pageLog))

\* C28: the returned list is the first min(limit, total) trades of the
\* concatenation, in page order and then row order, of the pages fetched up
\* to the first empty or failed page; no trade is reordered, a page is cut
\* only where limit is reached, and every field other than index is as the
\* page parser produced it.
C28_PrefixOfConcatenation ==
  ScrapeReturned =>
    /\ \A k \in 1..(Len(pageLog) - 1) : pageLog[k].ok /\ pageLog[k].trades # <<>>
    /\ Len(sres.trades) = Smaller(limit, Len(AllFetchedTrades))
    /\ \A i \in 1..Len(sres.trades) : Record(sres.trades[i]) = Record(AllFetchedTrades[i])

\* the second page is cut at the limit, and the two returned trades are
\* different records
C28_Witness ==
  /\ ScrapeReturned
  /\ Len(pageLog) = 2
  /\ Len(pageLog[2].trades) = 2
  /\ Len(AllFetchedTrades) > limit
  /\ Len(sres.trades) = 2
  /\ Record(sres.trades[1]) # Record(sres.trades[2])

\* ---------------------------------------- claims: failed resolutions
\* request p's last resolution failed
Failed(p) == rpc[p] = "done" /\ rres[p].kind = "threw"

\* after a failed resolution the cache holds no entry that a resolution of
\* the same key at that time would be served from
C29_State ==
  \A p \in Procs :
    Failed(p) =>
      \/ OwnKey(p) \notin DOMAIN idCache
      \/ rreq[p].at - idCache[OwnKey(p)].timestamp >= CACHE_TTL

\* the step in which a resolution fails changes nothing in the cache, and
\* the next resolution of the same kind and query goes to the network
C29_Step ==
  \A p \in Procs :
    /\ (SettlesByFetch(p) /\ rres'[p].kind = "threw") =>
         /\ idCache' = idCache
         /\ rres'[p].id = <<>>
    /\ (Failed(p) /\ CallBegins(p) /\ OwnKey(p)' = OwnKey(p)) => rpc'[p] = "fetching"

\* C29: a failed resolution (search fetch error, no matching link, or empty
\* identifier) leaves the cache unchanged: no entry is created or
\* overwritten, so the next resolution of the same query fetches again, and
\* a stale entry of that key is neither removed nor refreshed.
C29_FailureLeavesCache == []C29_State /\ [][C29_Step]_vars

\* a resolution failed while a stale entry of its key was in the cache, and
\* the entry is still there with the timestamp of its creation
C29_Witness ==
  /\ Failed("req1")
  /\ rres["req1"].fetched
  /\ OwnKey("req1") \in DOMAIN idCache
  /\ rreq["req1"].at - idCache[OwnKey("req1")].timestamp >= CACHE_TTL
  /\ idCache[OwnKey("req1")] = lastFetched[OwnKey("req1")]

\* ------------------------------- claims: consensus and the favorites
\* the issuers listed in a ranked category
Listed(list) == {list[i].asset.issuer : i \in 1..Len(list)}

\* the buys and sells of a party in an entry
EntryTotal(counts) == counts.buys + counts.sells

\* the three categories before truncation: no category has more entries
\* than there are trades
Untruncated == GetPartyBuyMomentum(ain.trades, Len(ain.trades))

\* every consensus entry of the report is also a favorite of Democrats or
\* of Republicans, and of both when the two parties' totals are equal
ConsensusAmongFavorites(report) ==
  \A i \in 1..Len(report.consensus) :
    LET entry == report.consensus[i].asset
    IN  /\ \/ entry.issuer \in Listed(report.democratFavorites)
           \/ entry.issuer \in Listed(report.republicanFavorites)
        /\ EntryTotal(entry.democrats) = EntryTotal(entry.republicans) =>
             /\ entry.issuer \in Listed(report.democratFavorites)
             /\ entry.issuer \in Listed(report.republicanFavorites)

\* C30: before truncation every issuer of the consensus list is also in
\* democratFavorites or in republicanFavorites, and in both when
\* demTotal = repTotal; so whenever limit is at least the number of issuers
\* every consensus entry of the report appears in a favorites list.
C30_ConsensusAmongFavorites ==
  PartyCalled =>
    /\ ConsensusAmongFavorites(Untruncated)
    /\ ain.limit >= Cardinality(IssuersIn(ain.trades)) => ConsensusAmongFavorites(aout.report)

\* two consensus issuers with limit 2: one with equal party totals, listed
\* by both parties, and one with more Democrat trades, listed by Democrats
\* only
C30_Witness ==
  /\ PartyCalled
  /\ ain.limit = 2
  /\ Len(aout.report.consensus) = 2
  /\ \E i, j \in 1..2 :
       /\ EntryTotal(aout.report.consensus[i].asset.democrats)
            = EntryTotal(aout.report.consensus[i].asset.republicans)
       /\ aout.report.consensus[i].asset.issuer \in Listed(aout.report.democratFavorites)
       /\ aout.report.consensus[i].asset.issuer \in Listed(aout.report.republicanFavorites)
       /\ aout.report.consensus[j].asset.issuer \in Listed(aout.report.democratFavorites)
       /\ aout.report.consensus[j].asset.issuer \notin Listed(aout.report.republicanFavorites)

====
